---- MODULE Spec2Model ----
(***************************************************************************)
(* Freight-matching marketplace: route legs (server/routes/routeLegs.js),  *)
(* the pricing formulas (server/routes/pricing.js) and the chain optimizer *)
(* as seen from its client page (Optimizer, client/src/pages).             *)
(*                                                                         *)
(* Amounts of money are exact rationals; the model keeps them as integers  *)
(* in a fixed sub-unit (tenths or hundredths) and rounds where the code    *)
(* calls Math.round.                                                       *)
(***************************************************************************)
EXTENDS Integers, Sequences, FiniteSets, TLC

VARIABLES
    supabase,      \* TRUE: database backend configured, FALSE: mock mode
    routeLegs,     \* the route_legs table / the mockRouteLegs array, in insertion order
    shipments,     \* shipments.status per shipment id
    res,           \* the response of the last route-leg request
    created,       \* history: the chains of the creation requests answered 201
    priceReq,      \* the body of the last pricing request
    priceRes,      \* the response of the last pricing request
    optClient,     \* the state of the Optimizer page
    optCall,       \* the optimize call in progress: request, solver state, result
    GOOGLE_MAPS_API_KEY,  \* TRUE: the server has a key of the distance provider
    etaCall,       \* the getETA call of the CreateShipment page and its answer
    routeInfo,     \* routeInfo of the CreateShipment page
    notifications, \* the notifications the CreateShipment page has added
    mockVehicles,  \* the vehicles table / the mockVehicles array
    vehicleRes,    \* the last response of the vehicles router
    mockShipments, \* the shipments table / the mockShipments array
    shipmentRes,   \* the last response of the shipments router
    accepts,       \* per transporter, the accept request in flight: position and answer
    cancels,       \* per shipper, the cancel request in flight: position and answer
    mockReturnTrips, \* the return_trips table / the mockReturnTrips array
    matchRes,      \* the last response of the return-trips router
    authStore,     \* the state of useAuthStore
    authPending    \* the requests of useAuthStore that have not settled

legVars == <<supabase, routeLegs, shipments, res, created>>

priceVars == <<priceReq, priceRes>>

optVars == <<optClient, optCall>>

etaVars == <<GOOGLE_MAPS_API_KEY, etaCall, routeInfo, notifications>>

vehicleVars == <<mockVehicles, vehicleRes>>

shipmentVars == <<mockShipments, shipmentRes>>

acceptVars == <<accepts>>

cancelVars == <<cancels>>

tripVars == <<mockReturnTrips, matchRes>>

authVars == <<authStore, authPending>>

\* the state of the other routers and pages
auxVars == <<etaVars, vehicleVars, shipmentVars, acceptVars, cancelVars, tripVars, authVars>>

\* the state outside the route information
notEta == <<supabase, routeLegs, shipments, res, created, priceReq, priceRes, optClient, optCall,
            vehicleVars, shipmentVars, acceptVars, cancelVars, tripVars, authVars>>

\* the state outside the vehicles router, the backend switch apart
notVehicles == <<routeLegs, shipments, res, created, priceReq, priceRes, optClient, optCall,
                 etaVars, shipmentVars, acceptVars, cancelVars, tripVars, authVars>>

\* the state outside the shipments router, the backend switch apart
notShipments == <<routeLegs, shipments, res, created, priceReq, priceRes, optClient, optCall,
                  etaVars, vehicleVars, acceptVars, cancelVars, tripVars, authVars>>

\* the state outside the shipments router and its cancel requests, the backend switch apart
notCancel == <<routeLegs, shipments, res, created, priceReq, priceRes, optClient, optCall,
               etaVars, vehicleVars, acceptVars, tripVars, authVars>>

\* the state outside the client auth store
notAuth == <<legVars, priceVars, optVars, etaVars, vehicleVars, shipmentVars, acceptVars,
             cancelVars, tripVars>>

\* the state outside the return-trips router, the backend switch apart
notTrips == <<routeLegs, shipments, res, created, priceReq, priceRes, optClient, optCall,
              etaVars, vehicleVars, shipmentVars, acceptVars, cancelVars, authVars>>

vars == <<supabase, routeLegs, shipments, res, created, priceReq, priceRes, optClient, optCall,
          GOOGLE_MAPS_API_KEY, etaCall, routeInfo, notifications,
          mockVehicles, vehicleRes, mockShipments, shipmentRes, accepts, cancels,
          mockReturnTrips, matchRes, authStore, authPending>>

-----------------------------------------------------------------------------
(* Bounds of the model *)

\* total number of legs the table may hold
MaxLegs == 2

\* longest list of legs one creation request carries
MaxChain == 2

\* pricing requests carry distances -MaxDistance..MaxDistance (km)
MaxDistance == 3

\* pricing requests carry weights -MaxWeight..MaxWeight (tons)
MaxWeight == 2

-----------------------------------------------------------------------------
(* Data the route-leg handlers read *)

NULL == "null"

\* an optional amount: <<>> when absent (null, undefined), <<x>> for the number x
None == <<>>

Some(x) == <<x>>

LEG_STATUSES == <<"pending", "assigned", "active", "completed">>

SHIPMENT_STATUSES == {"posted", "processing", "assigned", "in_transit", "delivered", "cancelled"}

ShipmentIds == {"s1", "s2"}

Transporters == {"t1", "t2"}

VehicleIds == {"v1", "v2"}

Locations == {"A", "B"}

\* shipments.weight_kg
weight_kg(s) == IF s = "s1" THEN 2 ELSE 3

\* vehicles.transporter_id
vehicleOwner(v) == IF v = "v1" THEN "t1" ELSE "t2"

\* vehicles.max_capacity_kg
max_capacity_kg(v) == IF v = "v1" THEN 4 ELSE 2

-----------------------------------------------------------------------------
(* Helpers *)

Range(s) == {s[i] : i \in 1..Len(s)}

\* total weight_kg of a set of shipments
RECURSIVE SumWeights(_)
SumWeights(S) ==
    IF S = {} THEN 0
    ELSE LET x == CHOOSE y \in S : TRUE IN weight_kg(x) + SumWeights(S \ {x})

\* JS truthiness of an optional value
Truthy(x) == x # NULL

\* res.status(status).json(body); the body is kept for the lists of legs only
Response(status, body) == [status |-> status, body |-> body]

\* legData with the last-leg test off by one (i === legs.length, i counted from 0)
LegDataLastOffByOne(shipment_id, legs, i, id) ==
    [ id                  |-> id,
      shipment_id         |-> shipment_id,
      vehicle_id          |-> legs[i].vehicle_id,
      transporter_id      |-> legs[i].transporter_id,
      leg_sequence_index  |-> i,
      is_last_leg         |-> (i - 1 = Len(legs)),
      start_location_name |-> legs[i].start_location_name,
      end_location_name   |-> legs[i].end_location_name,
      agreed_price        |-> IF legs[i].agreed_price # None THEN legs[i].agreed_price ELSE None,
      status              |-> IF Truthy(legs[i].transporter_id) THEN "assigned" ELSE "pending" ]

\* legData of the i-th (1-based) supplied leg; id stands for crypto.randomUUID()
LegData(shipment_id, legs, i, id) ==
    [ id                  |-> id,
      shipment_id         |-> shipment_id,
      vehicle_id          |-> legs[i].vehicle_id,
      transporter_id      |-> legs[i].transporter_id,
      leg_sequence_index  |-> i,
      is_last_leg         |-> (i = Len(legs)),
      start_location_name |-> legs[i].start_location_name,
      end_location_name   |-> legs[i].end_location_name,
      agreed_price        |-> IF legs[i].agreed_price # None THEN legs[i].agreed_price ELSE None,
      status              |-> IF Truthy(legs[i].transporter_id) THEN "assigned" ELSE "pending" ]

\* the first n legs of the request as rows, ids following the rows already stored
NewRows(shipment_id, legs, n) ==
    [i \in 1..n |-> LegData(shipment_id, legs, i, Len(routeLegs) + i)]

\* Array.prototype.filter(l => l.shipment_id === shipmentId)
LegsOfShipment(shipmentId) == SelectSeq(routeLegs, LAMBDA l : l.shipment_id = shipmentId)

\* places x behind every element whose index is <= its own (stable)
RECURSIVE InsertByIndex(_, _)
InsertByIndex(x, s) ==
    IF s = <<>> THEN <<x>>
    ELSE IF s[Len(s)].leg_sequence_index <= x.leg_sequence_index THEN Append(s, x)
    ELSE Append(InsertByIndex(x, SubSeq(s, 1, Len(s) - 1)), s[Len(s)])

\* the sort with the comparator reversed (b.leg_sequence_index - a.leg_sequence_index)
RECURSIVE SortByIndexDescending(_)
SortByIndexDescending(s) ==
    IF s = <<>> THEN <<>>
    ELSE LET rest == SortByIndexDescending(SubSeq(s, 1, Len(s) - 1))
             x    == s[Len(s)]
             k    == Cardinality({j \in 1..Len(rest) :
                                   rest[j].leg_sequence_index >= x.leg_sequence_index})
         IN  SubSeq(rest, 1, k) \o <<x>> \o SubSeq(rest, k + 1, Len(rest))

\* Array.prototype.sort((a, b) => a.leg_sequence_index - b.leg_sequence_index), stable
RECURSIVE SortByIndex(_)
SortByIndex(s) ==
    IF s = <<>> THEN <<>>
    ELSE InsertByIndex(s[Len(s)], SortByIndex(SubSeq(s, 1, Len(s) - 1)))

\* .order('leg_sequence_index', { ascending: true }): any order of the rows that is
\* ascending in the index; rows with equal index come in an order the database picks
OrderedByIndex(s) ==
    LET n == Len(s)
        perms == {p \in [1..n -> 1..n] : \A i, j \in 1..n : i # j => p[i] # p[j]}
    IN  {[i \in 1..n |-> s[p[i]]] : p \in
            {q \in perms : \A i \in 1..n, j \in 1..n :
                i < j => s[q[i]].leg_sequence_index <= s[q[j]].leg_sequence_index}}

-----------------------------------------------------------------------------
(* Requests *)

\* the legs a creation request may carry in the lifecycle specification
LegInputs ==
    { [ vehicle_id |-> NULL, transporter_id |-> NULL,
        start_location_name |-> "A", end_location_name |-> "B", agreed_price |-> None ],
      [ vehicle_id |-> "v2", transporter_id |-> "t2",
        start_location_name |-> "A", end_location_name |-> "B", agreed_price |-> Some(10) ] }

\* the legs a creation request may carry in the chain specification
ChainLegInputs ==
    [ vehicle_id : {NULL}, transporter_id : {NULL},
      start_location_name : Locations, end_location_name : Locations, agreed_price : {None} ]

\* proposed_price of an accept request, agreed_price of an update (absent, or an amount)
Prices == {None, Some(10)}

NoRequest == [kind |-> "none"]

Distances == (-MaxDistance)..MaxDistance

Weights == (-MaxWeight)..MaxWeight

\* vehicle classes of pricing requests: the classes priced, one of VEHICLE_TYPES, absent
PricedVehicleTypes == {"open", "covered", "refrigerated", "container", "tanker", "flatbed"}

RequestVehicleTypes == PricedVehicleTypes \cup {"lorry", NULL}

RequestCargoTypes ==
    {"general", "perishable", "fragile", "hazardous", "livestock", "heavy_machinery",
     "electronics", NULL}

RequestUrgencies == {"normal", "express", "overnight", "standard", "priority", "emergency", NULL}

ShippingRequests ==
    [ kind : {"shipping-price"}, distance_km : Distances, weight_tons : Weights,
      vehicle_type : RequestVehicleTypes, cargo_type : RequestCargoTypes,
      urgency : RequestUrgencies, return_empty : BOOLEAN ]

\* load_factor in tenths (absent = 10): empty, half, full load and an out-of-range 6.0
LoadFactors == {0, 5, 10, 60}

FuelRequests ==
    [ kind : {"calculate"}, distance_km : Distances, vehicle_type : RequestVehicleTypes,
      fuel_type : {"diesel", "petrol", "cng", "electric"},
      custom_mileage : {None, Some(80)}, custom_fuel_price : {None, Some(10000)},
      load_factor : LoadFactors ]

\* bodies of an update request: one field present at a time, or none
UpdateBodies ==
    [agreed_price : Prices, status : {NULL}, vehicle_id : {NULL}]
    \cup [agreed_price : {None}, status : Range(LEG_STATUSES) \cup {"bogus"}, vehicle_id : {NULL}]
    \cup [agreed_price : {None}, status : {NULL}, vehicle_id : VehicleIds]

ListsOf(S) == UNION {[1..n -> S] : n \in 0..MaxChain}

-----------------------------------------------------------------------------
(* Handlers of routeLegs.js *)

\* GET /shipment/:shipmentId
GetShipmentLegs(shipmentId) ==
    /\ \E legs \in (IF supabase THEN OrderedByIndex(LegsOfShipment(shipmentId))
                    ELSE {SortByIndex(LegsOfShipment(shipmentId))}) :
          res' = Response(200, legs)
    /\ UNCHANGED <<supabase, routeLegs, shipments, created, priceVars, optVars, auxVars>>

\* POST /  (failAt = k > 0: the insert of the k-th leg returns an error; database only)
CreateLegs(shipment_id, legs, failAt) ==
    /\ Len(routeLegs) + Len(legs) <= MaxLegs
    /\ IF ~Truthy(shipment_id) \/ Len(legs) = 0
       THEN /\ failAt = 0
            /\ res' = Response(400, <<>>)
            /\ UNCHANGED <<routeLegs, shipments, created>>
       ELSE IF supabase /\ failAt > 0
       THEN /\ failAt <= Len(legs)
            /\ routeLegs' = routeLegs \o NewRows(shipment_id, legs, failAt - 1)
            /\ res' = Response(500, <<>>)
            /\ UNCHANGED <<shipments, created>>
       ELSE /\ failAt = 0
            /\ routeLegs' = routeLegs \o NewRows(shipment_id, legs, Len(legs))
            /\ shipments' = IF supabase
                            THEN [shipments EXCEPT ![shipment_id] = "processing"]
                            ELSE shipments
            /\ res' = Response(201, NewRows(shipment_id, legs, Len(legs)))
            /\ created' = Append(created, [shipment_id |-> shipment_id, legs |-> legs,
                                           ids |-> [i \in 1..Len(legs) |-> Len(routeLegs) + i]])
    /\ UNCHANGED <<supabase, priceVars, optVars, auxVars>>

\* the row with the given id, as a set (empty when there is none)
IndexOf(id) == {i \in 1..Len(routeLegs) : routeLegs[i].id = id}

\* allLegs.every(l => l.status !== 'pending') over the legs of a shipment
AllLegsAssigned(legs, shipment_id) ==
    \A i \in 1..Len(legs) : legs[i].shipment_id = shipment_id => legs[i].status # "pending"

\* POST /:id/accept
AcceptLeg(user, id, vehicle_id, proposed_price) ==
    /\ IF ~Truthy(vehicle_id)
       THEN /\ res' = Response(400, <<>>)
            /\ UNCHANGED <<routeLegs, shipments>>
       ELSE IF IndexOf(id) = {}
       THEN /\ res' = Response(404, <<>>)
            /\ UNCHANGED <<routeLegs, shipments>>
       ELSE LET index == CHOOSE i \in IndexOf(id) : TRUE
                leg == [routeLegs[index] EXCEPT !.transporter_id = user,
                                                !.vehicle_id = vehicle_id,
                                                !.agreed_price = proposed_price,
                                                !.status = "assigned"]
                legs == [routeLegs EXCEPT ![index] = leg]
            IN  IF routeLegs[index].transporter_id # NULL
                THEN /\ res' = Response(400, <<>>)
                     /\ UNCHANGED <<routeLegs, shipments>>
                ELSE IF supabase /\ vehicleOwner(vehicle_id) # user
                THEN /\ res' = Response(400, <<>>)
                     /\ UNCHANGED <<routeLegs, shipments>>
                ELSE /\ routeLegs' = legs
                     /\ shipments' = IF supabase /\ AllLegsAssigned(legs, leg.shipment_id)
                                     THEN [shipments EXCEPT ![leg.shipment_id] = "assigned"]
                                     ELSE shipments
                     /\ res' = Response(200, <<>>)
    /\ UNCHANGED <<supabase, created, priceVars, optVars, etaVars, vehicleVars, shipmentVars, cancelVars, tripVars, authVars>>

\* the rows matched by id, transporter_id = user and status = from
Matching(id, user, from) ==
    {i \in 1..Len(routeLegs) : /\ routeLegs[i].id = id
                               /\ routeLegs[i].transporter_id = user
                               /\ routeLegs[i].status = from}

\* POST /:id/start
StartLeg(user, id) ==
    /\ IF Matching(id, user, "assigned") = {}
       THEN /\ res' = Response(IF supabase THEN 500 ELSE 404, <<>>)
            /\ UNCHANGED <<routeLegs, shipments>>
       ELSE LET index == CHOOSE i \in Matching(id, user, "assigned") : TRUE
                leg == [routeLegs[index] EXCEPT !.status = "active"]
            IN  /\ routeLegs' = [routeLegs EXCEPT ![index] = leg]
                /\ shipments' = IF supabase /\ shipments[leg.shipment_id] # "in_transit"
                                THEN [shipments EXCEPT ![leg.shipment_id] = "in_transit"]
                                ELSE shipments
                /\ res' = Response(200, <<>>)
    /\ UNCHANGED <<supabase, created, priceVars, optVars, auxVars>>

\* POST /:id/complete
CompleteLeg(user, id) ==
    /\ IF Matching(id, user, "active") = {}
       THEN /\ res' = Response(IF supabase THEN 500 ELSE 404, <<>>)
            /\ UNCHANGED <<routeLegs, shipments>>
       ELSE LET index == CHOOSE i \in Matching(id, user, "active") : TRUE
                leg == [routeLegs[index] EXCEPT !.status = "completed"]
            IN  /\ routeLegs' = [routeLegs EXCEPT ![index] = leg]
                /\ shipments' = IF supabase /\ leg.is_last_leg
                                THEN [shipments EXCEPT ![leg.shipment_id] = "delivered"]
                                ELSE shipments
                /\ res' = Response(200, <<>>)
    /\ UNCHANGED <<supabase, created, priceVars, optVars, auxVars>>

\* the merge with is_last_leg cleared as well
MergeUpdateClearsLastLeg(leg, agreed_price, status, vehicle_id) ==
    [leg EXCEPT !.agreed_price = IF agreed_price # None THEN agreed_price ELSE @,
                !.status       = IF Truthy(status) THEN status ELSE @,
                !.vehicle_id   = IF Truthy(vehicle_id) THEN vehicle_id ELSE @,
                !.is_last_leg  = FALSE]

\* { ...leg, ...updateData }: the fields of the request that are present overwrite the row's
MergeUpdate(leg, agreed_price, status, vehicle_id) ==
    [leg EXCEPT !.agreed_price = IF agreed_price # None THEN agreed_price ELSE @,
                !.status       = IF Truthy(status) THEN status ELSE @,
                !.vehicle_id   = IF Truthy(vehicle_id) THEN vehicle_id ELSE @]

\* PUT /:id
UpdateLeg(user, id, agreed_price, status, vehicle_id) ==
    /\ IF Truthy(status) /\ status \notin Range(LEG_STATUSES)
       THEN /\ res' = Response(400, <<>>)
            /\ UNCHANGED routeLegs
       ELSE LET rows == {i \in 1..Len(routeLegs) : /\ routeLegs[i].id = id
                                                   /\ routeLegs[i].transporter_id = user}
            IN  IF rows = {}
                THEN /\ res' = Response(IF supabase THEN 500 ELSE 404, <<>>)
                     /\ UNCHANGED routeLegs
                ELSE LET index == CHOOSE i \in rows : TRUE
                         leg == MergeUpdate(routeLegs[index], agreed_price, status, vehicle_id)
                     IN  /\ routeLegs' = [routeLegs EXCEPT ![index] = leg]
                         /\ res' = Response(200, <<>>)
    /\ UNCHANGED <<supabase, shipments, created, priceVars, optVars, auxVars>>

-----------------------------------------------------------------------------
(* pricing.js.  Amounts of the shipping price are kept in thousandths of a  *)
(* rupee, amounts of the fuel cost as fractions num/den of a paisa.         *)

\* FUEL_PRICES, in paise per litre
FUEL_PRICES(fuel_type) ==
    CASE fuel_type = "diesel" -> Some(8950)
      [] fuel_type = "petrol" -> Some(10250)
      [] fuel_type = "cng"    -> Some(7600)
      [] OTHER                -> None

\* VEHICLE_MILEAGE, in tenths of a km per litre
VEHICLE_MILEAGE(vehicle_type) ==
    CASE vehicle_type = "open"         -> Some(60)
      [] vehicle_type = "covered"      -> Some(55)
      [] vehicle_type = "refrigerated" -> Some(45)
      [] vehicle_type = "container"    -> Some(40)
      [] vehicle_type = "tanker"       -> Some(50)
      [] vehicle_type = "flatbed"      -> Some(50)
      [] OTHER                         -> None

\* INR per km per ton
baseRatePerKmTon == 8

\* the table with other factors for the levels (express 1.5, overnight 2.0)
urgencyMultiplierOtherFactors(urgency) ==
    CASE urgency = "normal"    -> Some(10)
      [] urgency = "express"   -> Some(15)
      [] urgency = "overnight" -> Some(20)
      [] OTHER                 -> None

\* urgencyMultiplier, in tenths
urgencyMultiplier(urgency) ==
    CASE urgency = "normal"    -> Some(10)
      [] urgency = "express"   -> Some(13)
      [] urgency = "overnight" -> Some(15)
      [] OTHER                 -> None

\* cargoMultiplier, in tenths
cargoMultiplier(cargo_type) ==
    CASE cargo_type = "general"         -> Some(10)
      [] cargo_type = "perishable"      -> Some(14)
      [] cargo_type = "fragile"         -> Some(13)
      [] cargo_type = "hazardous"       -> Some(16)
      [] cargo_type = "livestock"       -> Some(15)
      [] cargo_type = "heavy_machinery" -> Some(12)
      [] OTHER                          -> None

\* vehicleBaseRate, INR per km
vehicleBaseRate(vehicle_type) ==
    CASE vehicle_type = "open"         -> Some(30)
      [] vehicle_type = "covered"      -> Some(35)
      [] vehicle_type = "refrigerated" -> Some(50)
      [] vehicle_type = "container"    -> Some(45)
      [] vehicle_type = "tanker"       -> Some(55)
      [] vehicle_type = "flatbed"      -> Some(40)
      [] OTHER                         -> None

\* a || b on optional numbers (0 is falsy as well)
OrElse(a, b) == IF a # None /\ a[1] # 0 THEN a[1] ELSE b

\* Math.round(num / den): the nearest integer, halves towards +infinity
RoundDiv(num, den) ==
    IF den > 0 THEN (2 * num + den) \div (2 * den)
    ELSE (2 * (-num) + (-den)) \div (2 * (-den))

\* parameter defaults of the shipping-price request
Urgency(req) == IF req.urgency = NULL THEN "normal" ELSE req.urgency

\* the unrounded amounts of POST /shipping-price, in thousandths of a rupee; nan holds
\* the names of the amounts that are NaN (vehicleBaseRate[vehicle_type] undefined)
ShippingCosts(req) ==
    LET d    == req.distance_km
        w    == req.weight_tons
        rate == vehicleBaseRate(req.vehicle_type)
        baseCost          == d * w * baseRatePerKmTon * 1000
        vehicleCost       == IF rate = None THEN 0 ELSE rate[1] * d * 1000
        cargoAdjustment   == (baseCost \div 10) * (OrElse(cargoMultiplier(req.cargo_type), 10) - 10)
        urgencyAdjustment == (baseCost \div 10) * (OrElse(urgencyMultiplier(Urgency(req)), 10) - 10)
        returnCost        == IF req.return_empty THEN ((baseCost + vehicleCost) \div 10) * 3 ELSE 0
        subtotal          == baseCost + vehicleCost + cargoAdjustment + urgencyAdjustment + returnCost
    IN  [ baseCost |-> baseCost, vehicleCost |-> vehicleCost,
          cargoAdjustment |-> cargoAdjustment, urgencyAdjustment |-> urgencyAdjustment,
          returnCost |-> returnCost, subtotal |-> subtotal,
          minPrice |-> (subtotal \div 100) * 115, maxPrice |-> (subtotal \div 100) * 125,
          nan |-> IF rate # None THEN {}
                  ELSE {"vehicle_cost", "subtotal", "min", "max", "recommended", "per_km", "per_ton"}
                       \cup (IF req.return_empty THEN {"return_cost"} ELSE {}) ]

\* the body of the 200 response of POST /shipping-price (amounts in rupees)
ShippingBody(req) ==
    LET c == ShippingCosts(req)
    IN  [ status |-> 200, kind |-> "shipping-price",
          cargo_type |-> IF Truthy(req.cargo_type) THEN req.cargo_type ELSE "general",
          urgency |-> Urgency(req),
          breakdown |-> [ base_cost |-> RoundDiv(c.baseCost, 1000),
                          vehicle_cost |-> RoundDiv(c.vehicleCost, 1000),
                          cargo_adjustment |-> RoundDiv(c.cargoAdjustment, 1000),
                          urgency_adjustment |-> RoundDiv(c.urgencyAdjustment, 1000),
                          return_cost |-> RoundDiv(c.returnCost, 1000),
                          subtotal |-> RoundDiv(c.subtotal, 1000) ],
          suggested_price |-> [ min |-> RoundDiv(c.minPrice, 1000),
                                max |-> RoundDiv(c.maxPrice, 1000),
                                recommended |-> RoundDiv(c.minPrice + c.maxPrice, 2000) ],
          per_km  |-> RoundDiv(c.subtotal, 1000 * req.distance_km),
          per_ton |-> RoundDiv(c.subtotal, 1000 * req.weight_tons),
          nan |-> c.nan ]

\* POST /shipping-price, answering the request received
ShippingPrice(req) ==
    /\ priceReq = req
    /\ req.kind = "shipping-price"
    /\ priceRes.status = 0
    /\ priceRes' = IF req.distance_km = 0 \/ ~Truthy(req.vehicle_type) \/ req.weight_tons = 0
                   THEN [status |-> 400, kind |-> "shipping-price"]
                   ELSE ShippingBody(req)
    /\ UNCHANGED <<legVars, priceReq, optVars, auxVars>>

\* the amounts of POST /calculate as fractions of a paisa; mileage in tenths of km/l,
\* load_factor in tenths, so adjustedMileage = baseMileage * (50 - load_factor) / 500
FuelCosts(req) ==
    LET d           == req.distance_km
        baseMileage == OrElse(req.custom_mileage, OrElse(VEHICLE_MILEAGE(req.vehicle_type), 50))
        fuelPrice   == OrElse(req.custom_fuel_price,
                              OrElse(FUEL_PRICES(req.fuel_type), FUEL_PRICES("diesel")[1]))
        adjusted    == baseMileage * (50 - req.load_factor)
    IN  [ fuelPrice |-> fuelPrice,
          fuel      |-> [num |-> 500 * d * fuelPrice, den |-> adjusted],
          toll      |-> [num |-> 150 * d, den |-> 1],
          driver    |-> [num |-> 500 * d, den |-> 3],
          maint     |-> [num |-> 200 * d, den |-> 1],
          total     |-> [num |-> 1500 * d * fuelPrice + (1050 + 500) * d * adjusted,
                         den |-> 3 * adjusted] ]

\* the body of the 200 response of POST /calculate (amounts in paise)
FuelBody(req) ==
    LET c == FuelCosts(req)
    IN  [ status |-> 200, kind |-> "calculate",
          costs |-> [ fuel |-> RoundDiv(c.fuel.num, c.fuel.den),
                      toll_estimate |-> RoundDiv(c.toll.num, c.toll.den),
                      driver_allowance |-> RoundDiv(c.driver.num, c.driver.den),
                      maintenance |-> RoundDiv(c.maint.num, c.maint.den),
                      total |-> RoundDiv(c.total.num, c.total.den) ],
          per_km_cost |-> RoundDiv(c.total.num, c.total.den * req.distance_km),
          nan |-> {} ]

\* POST /calculate, answering the request received
FuelCalculate(req) ==
    /\ priceReq = req
    /\ req.kind = "calculate"
    /\ priceRes.status = 0
    /\ priceRes' = IF req.distance_km = 0 \/ ~Truthy(req.vehicle_type)
                   THEN [status |-> 400, kind |-> "calculate"]
                   ELSE FuelBody(req)
    /\ UNCHANGED <<legVars, priceReq, optVars, auxVars>>

-----------------------------------------------------------------------------
(* Optimizer page (client) and the optimize call it makes.  The page is the
   source under src/; the optimization engine behind /optimize/chain is
   modelled from sections 4.1, 4.3 and 6 of the specification. *)

\* the number of candidate routes the preferred solver returns at most
MaxRoutes == 2

\* points of the map, on a line
Points == {2, 4}

\* the values of the urgency <select>, in tenths
UrgencyOptions == {10, 15, 20, 30}

\* the values typed in the weight field
ClientWeights == {2, 5}

\* shipment requests of a direct caller of /optimize/chain, each with its stop
OptShipments ==
    { [id |-> "a", weight_kg |-> 2, pos |-> 1],
      [id |-> "b", weight_kg |-> 3, pos |-> 3] }

\* vehicle candidates: capacity and base rate per km
Fleets ==
    { <<>>,
      << [capacity_kg |-> 3, rate |-> 2] >>,
      << [capacity_kg |-> 3, rate |-> 2], [capacity_kg |-> 2, rate |-> 1] >>,
      << [capacity_kg |-> 2, rate |-> 1], [capacity_kg |-> 2, rate |-> 1] >> }

CallStates == {"Idle", "Unsolved", "Solving", "Solved", "SolvedWithFallback", "Infeasible"}

TerminalStates == {"Solved", "SolvedWithFallback", "Infeasible"}

ClientInit ==
    [ origin |-> None, destination |-> None, selectingPoint |-> NULL,
      isOptimizing |-> FALSE, results |-> None, selectedRoute |-> None,
      notification |-> NULL ]

NoCall ==
    [ state |-> "Idle", caller |-> NULL, request |-> None, result |-> None,
      preferredFailed |-> FALSE ]

NewCall(caller, request) ==
    [ state |-> "Unsolved", caller |-> caller, request |-> Some(request), result |-> None,
      preferredFailed |-> FALSE ]

Abs(x) == IF x < 0 THEN -x ELSE x

Distance(p, q) == Abs(p - q)

\* vehicle 0 is the null vehicle of a leg nobody carries yet
RateOf(vehicles, v) == IF v = 0 THEN 0 ELSE vehicles[v].rate

CapacityOf(vehicles, v) == IF v \in 1..Len(vehicles) THEN vehicles[v].capacity_kg ELSE 0

\* cost of a travelled edge: distance x vehicle base rate x urgency multiplier (tenths)
EdgeCost(req, from, to, v) ==
    Distance(from, to) * RateOf(req.vehicles, v) * req.urgency_multiplier

MakeLeg(req, from, to, stop, v) ==
    [ shipment_id |-> stop, from |-> from, to |-> to, vehicle |-> v,
      distance_km |-> Distance(from, to), cost |-> EdgeCost(req, from, to, v) ]

RECURSIVE SumCost(_)
SumCost(legs) == IF legs = <<>> THEN 0 ELSE legs[1].cost + SumCost(Tail(legs))

RECURSIVE SumKm(_)
SumKm(legs) == IF legs = <<>> THEN 0 ELSE legs[1].distance_km + SumKm(Tail(legs))

\* the route that visits the stops of order, stop i carried by vehicle assign[i],
\* and ends at the destination
AssembleRoute(req, order, assign) ==
    LET n        == Len(order)
        at(i)    == IF i = 0 THEN req.origin ELSE order[i].pos
        stopLegs == [i \in 1..n |-> MakeLeg(req, at(i - 1), order[i].pos, order[i].id, assign[i])]
        lastV    == IF n > 0 THEN assign[n] ELSE IF req.vehicles = <<>> THEN 0 ELSE 1
        closing  == IF n = 0 \/ at(n) # req.destination
                    THEN << MakeLeg(req, at(n), req.destination, NULL, lastV) >>
                    ELSE <<>>
        legs     == stopLegs \o closing
    IN  [ legs |-> legs, total_cost |-> SumCost(legs), total_eta_hours |-> SumKm(legs) ]

Without(s, i) == [j \in 1..(Len(s) - 1) |-> IF j < i THEN s[j] ELSE s[j + 1]]

Ids(s) == [i \in 1..Len(s) |-> s[i].id]

\* nearest stop among those that fit; ties on distance go to the first seen
Nearest(unvisited, fit, pos) ==
    CHOOSE i \in fit :
        \A j \in fit :
            \/ Distance(pos, unvisited[i].pos) < Distance(pos, unvisited[j].pos)
            \/ /\ Distance(pos, unvisited[i].pos) = Distance(pos, unvisited[j].pos)
               /\ i <= j

RECURSIVE Greedy(_, _, _, _, _, _, _)
Greedy(vehicles, unvisited, v, remaining, pos, order, assign) ==
    LET fit == {i \in 1..Len(unvisited) : unvisited[i].weight_kg <= remaining}
    IN  IF unvisited = <<>> \/ v > Len(vehicles)
        THEN [order |-> order, assign |-> assign, unassigned |-> Ids(unvisited)]
        ELSE IF fit = {}
        THEN Greedy(vehicles, unvisited, v + 1, CapacityOf(vehicles, v + 1), pos, order, assign)
        ELSE LET i == Nearest(unvisited, fit, pos)
             IN  Greedy(vehicles, Without(unvisited, i), v,
                        remaining - unvisited[i].weight_kg, unvisited[i].pos,
                        Append(order, unvisited[i]), Append(assign, v))

\* the fallback that loses the shipments it could not place
GreedyResultDropsUnplaced(req) ==
    LET g == Greedy(req.vehicles, req.shipments, 1, CapacityOf(req.vehicles, 1),
                    req.origin, <<>>, <<>>)
    IN  [ routes |-> IF g.order = <<>> /\ req.shipments # <<>>
                     THEN <<>> ELSE << AssembleRoute(req, g.order, g.assign) >>,
          solver |-> "heuristic", optimal |-> FALSE,
          unassigned_shipment_ids |-> <<>> ]

GreedyResult(req) ==
    LET g == Greedy(req.vehicles, req.shipments, 1, CapacityOf(req.vehicles, 1),
                    req.origin, <<>>, <<>>)
    IN  [ routes |-> IF g.order = <<>> /\ req.shipments # <<>>
                     THEN <<>> ELSE << AssembleRoute(req, g.order, g.assign) >>,
          solver |-> "heuristic", optimal |-> FALSE,
          unassigned_shipment_ids |-> g.unassigned ]

Orderings(s) ==
    { [i \in 1..Len(s) |-> s[p[i]]] :
        p \in {q \in [1..Len(s) -> 1..Len(s)] : \A i, j \in 1..Len(s) : q[i] = q[j] => i = j} }

RECURSIVE LoadOf(_, _, _)
LoadOf(order, assign, v) ==
    IF order = <<>> THEN 0
    ELSE (IF assign[1] = v THEN order[1].weight_kg ELSE 0) + LoadOf(Tail(order), Tail(assign), v)

\* the routes that carry every shipment within the capacity of every vehicle
FeasibleRoutes(req) ==
    { AssembleRoute(req, order, assign) :
        order \in Orderings(req.shipments),
        assign \in { a \in [1..Len(req.shipments) -> 1..Len(req.vehicles)] :
                        \A v \in 1..Len(req.vehicles) :
                            LoadOf(req.shipments, a, v) <= req.vehicles[v].capacity_kg } }

\* r1 is ranked no later than r2: cost, then duration, then fewer legs
RankedBefore(r1, r2) ==
    \/ r1.total_cost < r2.total_cost
    \/ /\ r1.total_cost = r2.total_cost
       /\ \/ r1.total_eta_hours < r2.total_eta_hours
          \/ /\ r1.total_eta_hours = r2.total_eta_hours
             /\ Len(r1.legs) <= Len(r2.legs)

\* the best-first orders of a set of candidate routes
Rankings(S) ==
    { r \in [1..Cardinality(S) -> S] :
        /\ \A i, j \in 1..Cardinality(S) : r[i] = r[j] => i = j
        /\ \A i \in 1..(Cardinality(S) - 1) : RankedBefore(r[i], r[i + 1]) }

CandidateSets(req) ==
    {S \in SUBSET FeasibleRoutes(req) : Cardinality(S) \in 1..MaxRoutes}

IsCheapest(req, r) == \A f \in FeasibleRoutes(req) : r.total_cost <= f.total_cost

(* The page *)

\* "Set Origin" and "Set Destination" buttons
StartSelecting(which) ==
    /\ optClient' = [optClient EXCEPT !.selectingPoint = which]
    /\ UNCHANGED <<auxVars, legVars, priceVars, optCall>>

onMapClick(point) ==
    /\ optClient' =
          IF optClient.selectingPoint = "origin"
          THEN [optClient EXCEPT !.origin = Some(point), !.selectingPoint = "destination"]
          ELSE IF optClient.selectingPoint = "destination"
          THEN [optClient EXCEPT !.destination = Some(point), !.selectingPoint = NULL]
          ELSE optClient
    /\ UNCHANGED <<auxVars, legVars, priceVars, optCall>>

resetSelection ==
    /\ optClient' = [optClient EXCEPT !.origin = None, !.destination = None,
                                      !.results = None, !.selectedRoute = None,
                                      !.selectingPoint = "origin"]
    /\ UNCHANGED <<auxVars, legVars, priceVars, optCall>>

\* the request of optimizeApi.chainOptimize, with the fleet snapshot the calling
\* layer adds; the shipment is delivered at the destination
ChainRequest(origin, destination, weight, urgency, vehicles) ==
    [ origin |-> origin, destination |-> destination,
      shipments |-> << [id |-> "c", weight_kg |-> weight, pos |-> destination] >>,
      vehicles |-> vehicles, urgency_multiplier |-> urgency ]

\* the click on "Optimize", up to the await.  The button is disabled without
\* origin or destination and while optimizing, so the early return of the
\* handler is never taken.
handleOptimize(weight, urgency, vehicles) ==
    /\ ~optClient.isOptimizing
    /\ optClient.origin # None
    /\ optClient.destination # None
    /\ optClient' = [optClient EXCEPT !.isOptimizing = TRUE, !.results = None]
    /\ optCall' = NewCall("client", ChainRequest(optClient.origin[1],
                          optClient.destination[1], weight, urgency, vehicles))
    /\ UNCHANGED <<auxVars, legVars, priceVars>>

DefaultRouteLast(routes) == routes[Len(routes)]

\* the route selected when the response arrives
DefaultRoute(routes) == routes[1]

\* the response arrives
handleOptimizeResponse ==
    /\ optClient.isOptimizing
    /\ optCall.caller = "client"
    /\ optCall.state \in TerminalStates
    /\ LET data == optCall.result[1]
       IN  optClient' = [optClient EXCEPT
                !.results = Some(data),
                !.selectedRoute = IF Len(data.routes) > 0
                                  THEN Some(DefaultRoute(data.routes)) ELSE @,
                !.notification = "success",
                !.isOptimizing = FALSE]
    /\ optCall' = [optCall EXCEPT !.caller = NULL]
    /\ UNCHANGED <<auxVars, legVars, priceVars>>

\* the request fails on its way: catch and finally
handleOptimizeError ==
    /\ optClient.isOptimizing
    /\ optCall.caller = "client"
    /\ optCall.state \in TerminalStates
    /\ optClient' = [optClient EXCEPT !.notification = "error", !.isOptimizing = FALSE]
    /\ optCall' = [optCall EXCEPT !.caller = NULL]
    /\ UNCHANGED <<auxVars, legVars, priceVars>>

\* the click on a route card
SelectRoute(index) ==
    /\ optClient.results # None
    /\ index \in 1..Len(optClient.results[1].routes)
    /\ optClient' = [optClient EXCEPT !.selectedRoute = Some(optClient.results[1].routes[index])]
    /\ UNCHANGED <<auxVars, legVars, priceVars, optCall>>

(* The optimize call *)

\* a direct POST /api/optimize/chain
PostOptimizeChain(req) ==
    /\ optCall.state \in TerminalStates \cup {"Idle"}
    /\ optCall' = NewCall("api", req)
    /\ UNCHANGED <<auxVars, legVars, priceVars, optClient>>

BeginSolve ==
    /\ optCall.state = "Unsolved"
    /\ optCall' = [optCall EXCEPT !.state = "Solving"]
    /\ UNCHANGED <<auxVars, legVars, priceVars, optClient>>

\* the preferred solver returns what it found within its budget
PreferredSolves ==
    /\ optCall.state = "Solving"
    /\ \E S \in CandidateSets(optCall.request[1]) :
       \E routes \in Rankings(S) :
       \E optimal \in {FALSE} \cup {IsCheapest(optCall.request[1], routes[1])} :
          optCall' = [optCall EXCEPT
                !.state = "Solved",
                !.result = Some([ routes |-> routes, solver |-> "exact", optimal |-> optimal,
                                  unassigned_shipment_ids |-> <<>> ])]
    /\ UNCHANGED <<auxVars, legVars, priceVars, optClient>>

\* the failure of the preferred solver ends the call
PreferredFailsThrows ==
    /\ optCall.state = "Solving"
    /\ optCall' = [optCall EXCEPT !.state = "Error", !.preferredFailed = TRUE]
    /\ UNCHANGED <<auxVars, legVars, priceVars, optClient>>

\* the preferred solver is unavailable, throws, times out or finds nothing:
\* the greedy fallback answers
PreferredFails ==
    /\ optCall.state = "Solving"
    /\ LET result == GreedyResult(optCall.request[1])
       IN  optCall' = [optCall EXCEPT
                !.state = IF result.unassigned_shipment_ids = <<>>
                          THEN "SolvedWithFallback" ELSE "Infeasible",
                !.result = Some(result),
                !.preferredFailed = TRUE]
    /\ UNCHANGED <<auxVars, legVars, priceVars, optClient>>

-----------------------------------------------------------------------------
(* CreateShipment page: route information, and POST /routes/eta.
   Distances are kept in metres and durations in seconds. *)

\* the notifications a behaviour of the model adds at most
MaxNotifications == 2

\* coordinates in hundredths of a degree
Chennai == [lat |-> 1308, lng |-> 8027]

Bangalore == [lat |-> 1297, lng |-> 7759]

NearChennai == [lat |-> 1309, lng |-> 8027]

Coordinates == {Chennai, Bangalore, NearChennai}

\* R * c of calculateHaversineDistance for the coordinates of the model, in metres
GreatCircleMetres(point1, point2) ==
    IF point1 = point2 THEN 0
    ELSE IF {point1, point2} = {Chennai, Bangalore} THEN 290591
    ELSE IF {point1, point2} = {Chennai, NearChennai} THEN 1112
    ELSE 290635

\* Math.round(R * c * 1.3), in km
calculateHaversineDistance(point1, point2) ==
    RoundDiv(GreatCircleMetres(point1, point2) * 13, 10000)

\* the route information of both fallback branches of calculateRoute
FallbackRouteInfo(origin, destination) ==
    LET fallbackDistance == calculateHaversineDistance(origin, destination)
    IN  [ distance_km |-> fallbackDistance * 1000,
          duration_hours |-> fallbackDistance * 72,
          estimated_arrival |-> NULL ]

EtaResponse(status, distance, duration) ==
    [ status |-> status, distance_km |-> distance, duration_hours |-> duration,
      estimated_arrival |-> IF status = 200 THEN "iso" ELSE NULL ]

NoEta ==
    [ pc |-> "idle", caller |-> NULL, origin |-> None, destination |-> None,
      provider |-> NULL, res |-> EtaResponse(0, 0, 0), before |-> 0 ]

\* what the directions provider can answer for two coordinates
ProviderAnswers(origin, destination) ==
    LET metres  == (GreatCircleMetres(origin, destination) * 12) \div 10
        seconds == metres \div 15
    IN  { [status |-> "throws", distance |-> 0, duration |-> 0, duration_in_traffic |-> None],
          [status |-> "ZERO_RESULTS", distance |-> 0, duration |-> 0, duration_in_traffic |-> None] }
        \cup
        [ status : {"OK"}, distance : {metres}, duration : {seconds},
          duration_in_traffic : {None, Some(seconds + seconds \div 4)} ]

\* routesApi.getETA(origin, destination) sent
SendEta(caller, origin, destination) ==
    /\ etaCall.pc \in {"idle", "done"}
    /\ Len(notifications) < MaxNotifications
    /\ etaCall' = [NoEta EXCEPT !.pc = "sent", !.caller = caller, !.origin = origin,
                                !.destination = destination, !.before = Len(notifications)]
    /\ UNCHANGED <<notEta, GOOGLE_MAPS_API_KEY, routeInfo, notifications>>

\* calculateRoute up to the await; both points exist when the page calls it
calculateRoute(origin, destination) == SendEta("page", Some(origin), Some(destination))

\* the handler of POST /routes/eta
PostEta ==
    /\ etaCall.pc = "sent"
    /\ IF etaCall.origin = None \/ etaCall.destination = None
       THEN etaCall' = [etaCall EXCEPT !.pc = "answered", !.res = EtaResponse(400, 0, 0)]
       ELSE IF ~GOOGLE_MAPS_API_KEY
       THEN etaCall' = [etaCall EXCEPT !.pc = "answered", !.provider = "absent",
                                       !.res = EtaResponse(200, 350 * 1000, (350 * 3600) \div 60)]
       ELSE \E data \in ProviderAnswers(etaCall.origin[1], etaCall.destination[1]) :
               etaCall' = [etaCall EXCEPT
                   !.pc = "answered",
                   !.provider = data.status,
                   !.res = IF data.status = "throws" THEN EtaResponse(500, 0, 0)
                           ELSE IF data.status # "OK" THEN EtaResponse(400, 0, 0)
                           ELSE EtaResponse(200, data.distance,
                                            OrElse(data.duration_in_traffic, data.duration))]
    /\ UNCHANGED <<notEta, GOOGLE_MAPS_API_KEY, routeInfo, notifications>>

\* the request or its answer is lost: axios throws
EtaNetworkError ==
    /\ etaCall.pc = "sent"
    /\ etaCall' = [etaCall EXCEPT !.pc = "answered", !.provider = "unreached"]
    /\ UNCHANGED <<notEta, GOOGLE_MAPS_API_KEY, routeInfo, notifications>>

\* calculateRoute after the await
calculateRouteAnswer ==
    /\ etaCall.pc = "answered"
    /\ etaCall.caller = "page"
    /\ etaCall' = [etaCall EXCEPT !.pc = "done"]
    /\ IF etaCall.res.status = 200
       THEN IF etaCall.res.distance_km # 0
            THEN /\ routeInfo' = Some([ distance_km |-> etaCall.res.distance_km,
                                        duration_hours |-> etaCall.res.duration_hours,
                                        estimated_arrival |-> etaCall.res.estimated_arrival ])
                 /\ UNCHANGED notifications
            ELSE /\ routeInfo' = Some(FallbackRouteInfo(etaCall.origin[1], etaCall.destination[1]))
                 /\ UNCHANGED notifications
       ELSE /\ routeInfo' = Some(FallbackRouteInfo(etaCall.origin[1], etaCall.destination[1]))
            /\ notifications' = Append(notifications, "warning")
    /\ UNCHANGED <<notEta, GOOGLE_MAPS_API_KEY>>

\* the answer to a caller other than the page
EtaAnswered ==
    /\ etaCall.pc = "answered"
    /\ etaCall.caller = "api"
    /\ etaCall' = [etaCall EXCEPT !.pc = "done"]
    /\ UNCHANGED <<notEta, GOOGLE_MAPS_API_KEY, routeInfo, notifications>>

EtaInit ==
    /\ etaCall = NoEta
    /\ routeInfo = None
    /\ notifications = <<>>

-----------------------------------------------------------------------------
(* Vehicles router.  Capacities of a request are in tenths of a kg, stored
   capacities in kg. *)

\* the vehicles the model stores at most
MaxVehicles == 2

VEHICLE_TYPES == {"lorry", "truck", "trailer", "mini_truck", "tempo"}

\* parseInt of a number given in tenths: the digits before the decimal point
ParseIntTenths(x) == IF x >= 0 THEN x \div 10 ELSE -((-x) \div 10)

VehiclesInit ==
    /\ mockVehicles = << [ id |-> 1, transporter_id |-> "t1", vehicle_type |-> "lorry",
                           max_capacity_kg |-> 10000 ] >>
    /\ vehicleRes = [status |-> 0]

\* max_capacity_kg of a request: absent, -5, 0, 0.5 or 20 kg
RequestCapacities == {None, Some(-50), Some(0), Some(5), Some(200)}

AddVehicleBodies ==
    [ plate_number : {NULL, "TN01AB1234"}, vehicle_type : {NULL, "lorry", "open"},
      max_capacity_kg : RequestCapacities ]

UpdateVehicleBodies ==
    [ vehicle_type : {NULL, "truck", "open"}, max_capacity_kg : RequestCapacities ]

\* router.post('/'); error: the insert fails in the database
AddVehicle(user, body, error) ==
    /\ IF \/ body.plate_number = NULL \/ body.vehicle_type = NULL
          \/ body.max_capacity_kg = None \/ body.max_capacity_kg[1] = 0
       THEN /\ vehicleRes' = [status |-> 400]
            /\ UNCHANGED mockVehicles
       ELSE IF body.vehicle_type \notin VEHICLE_TYPES
       THEN /\ vehicleRes' = [status |-> 400]
            /\ UNCHANGED mockVehicles
       ELSE IF body.max_capacity_kg[1] <= 0
       THEN /\ vehicleRes' = [status |-> 400]
            /\ UNCHANGED mockVehicles
       ELSE IF supabase /\ error
       THEN /\ vehicleRes' = [status |-> 500]
            /\ UNCHANGED mockVehicles
       ELSE /\ Len(mockVehicles) < MaxVehicles
            /\ mockVehicles' = Append(mockVehicles,
                  [ id |-> Len(mockVehicles) + 1, transporter_id |-> user,
                    vehicle_type |-> body.vehicle_type,
                    max_capacity_kg |-> ParseIntTenths(body.max_capacity_kg[1]) ])
            /\ vehicleRes' = [status |-> 201]
    /\ UNCHANGED <<supabase, notVehicles>>

\* updateData of router.put('/:id') merged into a vehicle
VehicleUpdate(vehicle, body) ==
    [vehicle EXCEPT
        !.vehicle_type = IF body.vehicle_type # NULL THEN body.vehicle_type ELSE @,
        !.max_capacity_kg = IF body.max_capacity_kg # None
                            THEN ParseIntTenths(body.max_capacity_kg[1]) ELSE @]

\* router.put('/:id')
UpdateVehicle(user, id, body) ==
    /\ IF body.vehicle_type # NULL /\ body.vehicle_type \notin VEHICLE_TYPES
       THEN /\ vehicleRes' = [status |-> 400]
            /\ UNCHANGED mockVehicles
       ELSE LET found == {i \in 1..Len(mockVehicles) :
                            mockVehicles[i].id = id /\ mockVehicles[i].transporter_id = user}
            IN  IF found = {}
                THEN /\ vehicleRes' = [status |-> IF supabase THEN 500 ELSE 404]
                     /\ UNCHANGED mockVehicles
                ELSE /\ mockVehicles' = [i \in 1..Len(mockVehicles) |->
                            IF i \in found THEN VehicleUpdate(mockVehicles[i], body)
                            ELSE mockVehicles[i]]
                     /\ vehicleRes' = [status |-> 200]
    /\ UNCHANGED <<supabase, notVehicles>>

-----------------------------------------------------------------------------
(* Shipments router.  Coordinates are in whole degrees. *)

\* the shipments the model stores at most
MaxShipments == 2

Shippers == {"sh1", "sh2"}

ShipmentsInit ==
    /\ mockShipments = << [ id |-> 1, shipper_id |-> "sh1", status |-> "posted",
                            weight_kg |-> 500,
                            origin_lat |-> 13, origin_lng |-> 80,
                            dest_lat |-> 13, dest_lng |-> 78 ] >>
    /\ shipmentRes = [status |-> 0]

CreateShipmentBodies ==
    [ cargo_type : {NULL, "general"}, weight_kg : {Some(500), Some(-1)},
      origin_lat : {None, Some(0), Some(13), Some(95)}, origin_lng : {Some(80), Some(200)},
      dest_lat : {Some(13), Some(-95)}, dest_lng : {Some(78)} ]

UpdateShipmentBodies ==
    [ origin_lat : {None, Some(0), Some(95)}, origin_lng : {None, Some(200)},
      dest_lat : {None, Some(-95)}, dest_lng : {None, Some(78)} ]

\* !x of an optional number
Missing(x) == x = None \/ x[1] = 0

\* shipments router.post('/'); error: the insert fails in the database
CreateShipment(user, body, error) ==
    /\ IF \/ body.cargo_type = NULL \/ Missing(body.weight_kg)
          \/ Missing(body.origin_lat) \/ Missing(body.origin_lng)
          \/ Missing(body.dest_lat) \/ Missing(body.dest_lng)
       THEN /\ shipmentRes' = [status |-> 400]
            /\ UNCHANGED mockShipments
       ELSE IF body.weight_kg[1] <= 0
       THEN /\ shipmentRes' = [status |-> 400]
            /\ UNCHANGED mockShipments
       ELSE IF supabase /\ error
       THEN /\ shipmentRes' = [status |-> 500]
            /\ UNCHANGED mockShipments
       ELSE /\ Len(mockShipments) < MaxShipments
            /\ mockShipments' = Append(mockShipments,
                  [ id |-> Len(mockShipments) + 1, shipper_id |-> user, status |-> "posted",
                    weight_kg |-> body.weight_kg[1],
                    origin_lat |-> body.origin_lat[1], origin_lng |-> body.origin_lng[1],
                    dest_lat |-> body.dest_lat[1], dest_lng |-> body.dest_lng[1] ])
            /\ shipmentRes' = [status |-> 201]
    /\ UNCHANGED <<supabase, notShipments>>

\* updateData of shipments router.put('/:id') merged into a shipment
ShipmentUpdate(shipment, body) ==
    [shipment EXCEPT
        !.origin_lat = IF body.origin_lat # None THEN body.origin_lat[1] ELSE @,
        !.origin_lng = IF body.origin_lng # None THEN body.origin_lng[1] ELSE @,
        !.dest_lat = IF body.dest_lat # None THEN body.dest_lat[1] ELSE @,
        !.dest_lng = IF body.dest_lng # None THEN body.dest_lng[1] ELSE @]

\* shipments router.put('/:id')
UpdateShipment(user, id, body) ==
    /\ LET found == {i \in 1..Len(mockShipments) :
                        mockShipments[i].id = id /\ mockShipments[i].shipper_id = user}
       IN  IF found = {}
           THEN /\ shipmentRes' = [status |-> IF supabase THEN 500 ELSE 404]
                /\ UNCHANGED mockShipments
           ELSE /\ mockShipments' = [i \in 1..Len(mockShipments) |->
                       IF i \in found THEN ShipmentUpdate(mockShipments[i], body)
                       ELSE mockShipments[i]]
                /\ shipmentRes' = [status |-> 200]
    /\ UNCHANGED <<supabase, notShipments>>

-----------------------------------------------------------------------------
(* Shipments router: PUT /:id/status and POST /:id/cancel.  On the database  *)
(* path the cancel handler awaits its select before its update.             *)

\* the users that hold a token
Users == Shippers \cup Transporters

\* status of a status-update request: the statuses of the enum and one outside it
RequestStatuses == SHIPMENT_STATUSES \cup {"bogus"}

\* no cancel request sent
NoCancel == [pc |-> "idle", id |-> 0, status |-> 0]

CancelsInit == cancels = [u \in Shippers |-> NoCancel]

\* the rows with this id
ShipmentRows(id) == {i \in 1..Len(mockShipments) : mockShipments[i].id = id}

\* the rows with this id and shipper_id = req.user.id
OwnShipmentRows(id, user) == {i \in ShipmentRows(id) : mockShipments[i].shipper_id = user}

\* update shipments set status where id = id
SetShipmentStatus(id, status) ==
    [i \in 1..Len(mockShipments) |->
        IF i \in ShipmentRows(id) THEN [mockShipments[i] EXCEPT !.status = status]
        ELSE mockShipments[i]]

\* shipments router.put('/:id/status')
UpdateStatus(user, id, status) ==
    /\ IF status \notin SHIPMENT_STATUSES
       THEN /\ shipmentRes' = [status |-> 400]
            /\ UNCHANGED mockShipments
       ELSE IF ShipmentRows(id) = {}
       THEN /\ shipmentRes' = [status |-> IF supabase THEN 500 ELSE 404]
            /\ UNCHANGED mockShipments
       ELSE /\ mockShipments' = SetShipmentStatus(id, status)
            /\ shipmentRes' = [status |-> 200]
    /\ UNCHANGED <<supabase, notShipments>>

\* database path of shipments router.post('/:id/cancel'): the request and its select
CancelSelect(user, id) ==
    /\ supabase
    /\ cancels[user].pc = "idle"
    /\ cancels' = [cancels EXCEPT ![user] =
          IF OwnShipmentRows(id, user) = {}
          THEN [pc |-> "done", id |-> id, status |-> 404]
          ELSE IF mockShipments[CHOOSE i \in OwnShipmentRows(id, user) : TRUE].status # "posted"
          THEN [pc |-> "done", id |-> id, status |-> 400]
          ELSE [pc |-> "update", id |-> id, status |-> 0]]
    /\ UNCHANGED <<supabase, shipmentVars, notCancel>>

\* database path of shipments router.post('/:id/cancel'): the update and the answer
CancelUpdate(user) ==
    /\ cancels[user].pc = "update"
    /\ IF ShipmentRows(cancels[user].id) = {}
       THEN /\ cancels' = [cancels EXCEPT ![user].pc = "done", ![user].status = 500]
            /\ UNCHANGED mockShipments
       ELSE /\ mockShipments' = SetShipmentStatus(cancels[user].id, "cancelled")
            /\ cancels' = [cancels EXCEPT ![user].pc = "done", ![user].status = 200]
    /\ UNCHANGED <<supabase, shipmentRes, notCancel>>

\* mock path of shipments router.post('/:id/cancel'): the whole handler
CancelMock(user, id) ==
    /\ ~supabase
    /\ cancels[user].pc = "idle"
    /\ IF OwnShipmentRows(id, user) = {}
       THEN /\ cancels' = [cancels EXCEPT ![user] = [pc |-> "done", id |-> id, status |-> 404]]
            /\ UNCHANGED mockShipments
       ELSE IF mockShipments[CHOOSE i \in OwnShipmentRows(id, user) : TRUE].status # "posted"
       THEN /\ cancels' = [cancels EXCEPT ![user] = [pc |-> "done", id |-> id, status |-> 400]]
            /\ UNCHANGED mockShipments
       ELSE /\ mockShipments' = SetShipmentStatus(id, "cancelled")
            /\ cancels' = [cancels EXCEPT ![user] = [pc |-> "done", id |-> id, status |-> 200]]
    /\ UNCHANGED <<supabase, shipmentRes, notCancel>>

-----------------------------------------------------------------------------
(* returnTrips.js.  Capacities and weights are in tons, deviations and       *)
(* scores in metres (thousandths of a km).                                   *)

\* the return trips the model stores at most
MaxTrips == 2

\* mockReturnTrips as declared: one available trip Bangalore -> Chennai of 8 tons
ReturnTripsInit ==
    /\ mockReturnTrips = << [ id |-> 1, transporter_id |-> "t1", origin |-> Bangalore,
                              destination |-> Chennai, available_capacity_tons |-> 8,
                              status |-> "available" ] >>
    /\ matchRes = [status |-> 0]

\* available_capacity_tons of a request: absent, or an amount
TripCapacities == {None, Some(5), Some(20)}

\* req.body of POST /
CreateTripBodies ==
    [ vehicle_id : {NULL, "v1"}, origin : {Bangalore}, destination : {Chennai, NearChennai},
      available_capacity_tons : TripCapacities ]

\* req.body of PUT /:id
UpdateTripBodies ==
    [ status : {NULL, "booked", "available"}, available_capacity_tons : TripCapacities ]

\* req.body of POST /match
MatchBodies ==
    [ origin : {None, Some(Bangalore)}, destination : {Some(Chennai), Some(Bangalore)},
      weight : {None, Some(5), Some(10)} ]

\* max_deviation_km = 30, in metres
max_deviation == 30 * 1000

\* calculateDistance, in metres
calculateDistance(point1, point2) == GreatCircleMetres(point1, point2)

\* POST /
CreateTrip(user, body) ==
    /\ IF ~Truthy(body.vehicle_id)
       THEN /\ matchRes' = [status |-> 400]
            /\ UNCHANGED mockReturnTrips
       ELSE /\ Len(mockReturnTrips) < MaxTrips
            /\ mockReturnTrips' = Append(mockReturnTrips,
                  [ id |-> IF mockReturnTrips = <<>> THEN 1
                           ELSE mockReturnTrips[Len(mockReturnTrips)].id + 1,
                    transporter_id |-> user, origin |-> body.origin,
                    destination |-> body.destination,
                    available_capacity_tons |-> OrElse(body.available_capacity_tons, 0),
                    status |-> "available" ])
            /\ matchRes' = [status |-> 201]
    /\ UNCHANGED <<supabase, notTrips>>

\* { ...trip, ...updateData }
TripUpdate(trip, body) ==
    [trip EXCEPT
        !.status = IF Truthy(body.status) THEN body.status ELSE @,
        !.available_capacity_tons =
            IF body.available_capacity_tons # None THEN body.available_capacity_tons[1] ELSE @]

\* PUT /:id
UpdateTrip(user, id, body) ==
    /\ LET found == {i \in 1..Len(mockReturnTrips) :
                        /\ mockReturnTrips[i].id = id
                        /\ mockReturnTrips[i].transporter_id = user}
       IN  IF found = {}
           THEN /\ matchRes' = [status |-> IF supabase THEN 500 ELSE 404]
                /\ UNCHANGED mockReturnTrips
           ELSE /\ mockReturnTrips' = [i \in 1..Len(mockReturnTrips) |->
                       IF i \in found THEN TripUpdate(mockReturnTrips[i], body)
                       ELSE mockReturnTrips[i]]
                /\ matchRes' = [status |-> 200]
    /\ UNCHANGED <<supabase, notTrips>>

\* DELETE /:id
DeleteTrip(user, id) ==
    /\ LET found(t) == t.id = id /\ t.transporter_id = user
           kept(t)  == ~found(t)
       IN  IF ~supabase /\ ~\E i \in 1..Len(mockReturnTrips) : found(mockReturnTrips[i])
           THEN /\ matchRes' = [status |-> 404]
                /\ UNCHANGED mockReturnTrips
           ELSE /\ mockReturnTrips' = SelectSeq(mockReturnTrips, kept)
                /\ matchRes' = [status |-> 200]
    /\ UNCHANGED <<supabase, notTrips>>

\* a trip of the database path with its deviations and score
ScoredTrip(trip, origin, destination) ==
    LET originDeviation == calculateDistance(origin, trip.origin)
        destDeviation   == calculateDistance(destination, trip.destination)
        isOnRoute       == originDeviation <= max_deviation /\ destDeviation <= max_deviation
        score           == IF isOnRoute THEN 100 * 1000 - (originDeviation + destDeviation) ELSE 0
    IN  [ id |-> trip.id, status |-> trip.status,
          available_capacity_tons |-> trip.available_capacity_tons,
          match_score |-> IF score > 0 THEN score ELSE 0,
          is_compatible |-> isOnRoute ]

\* a trip of the mock path with its fixed score
MockScoredTrip(trip) ==
    [ id |-> trip.id, status |-> trip.status,
      available_capacity_tons |-> trip.available_capacity_tons,
      match_score |-> 85 * 1000, is_compatible |-> TRUE ]

\* places x before the first element with a lower score (stable)
RECURSIVE InsertByScore(_, _)
InsertByScore(x, s) ==
    IF s = <<>> THEN <<x>>
    ELSE IF Head(s).match_score < x.match_score THEN <<x>> \o s
    ELSE <<Head(s)>> \o InsertByScore(x, Tail(s))

\* sort((a, b) => b.match_score - a.match_score)
RECURSIVE SortByScore(_)
SortByScore(s) ==
    IF s = <<>> THEN <<>>
    ELSE InsertByScore(s[Len(s)], SortByScore(SubSeq(s, 1, Len(s) - 1)))

\* POST /match
MatchTrips(body) ==
    /\ IF body.origin = None \/ body.destination = None
       THEN matchRes' = [status |-> 400]
       ELSE IF supabase
       THEN LET selected(t)   == /\ t.status = "available"
                                 /\ t.available_capacity_tons >= OrElse(body.weight, 0)
                trips         == SelectSeq(mockReturnTrips, selected)
                scored        == [i \in 1..Len(trips) |->
                                    ScoredTrip(trips[i], body.origin[1], body.destination[1])]
                compatible(t) == t.is_compatible
            IN  matchRes' = [status |-> 200, weight |-> body.weight,
                             trips |-> SortByScore(SelectSeq(scored, compatible))]
       ELSE LET available(t) == t.status = "available"
                trips        == SelectSeq(mockReturnTrips, available)
            IN  matchRes' = [status |-> 200, weight |-> body.weight,
                             trips |-> [i \in 1..Len(trips) |-> MockScoredTrip(trips[i])]]
    /\ UNCHANGED <<supabase, mockReturnTrips, notTrips>>

-----------------------------------------------------------------------------
(* useAuthStore of the client.  A request of the store is pending from its   *)
(* await until its promise settles; rejections are those its catch receives. *)

\* the requests of the store that await the server
AuthCalls == {"login", "register", "updateProfile", "checkAuth"}

\* the store as created, nothing persisted
AuthInit ==
    /\ authStore = [user |-> NULL, token |-> NULL, isAuthenticated |-> FALSE,
                    isLoading |-> FALSE, error |-> NULL]
    /\ authPending = [c \in AuthCalls |-> FALSE]

\* the page loaded again: persist restores token and user, the rest is as created
rehydrate ==
    /\ authStore' = [user |-> authStore.user, token |-> authStore.token,
                     isAuthenticated |-> FALSE, isLoading |-> FALSE, error |-> NULL]
    /\ authPending' = [c \in AuthCalls |-> FALSE]
    /\ UNCHANGED notAuth

\* set({ isLoading: true, error: null }) and the request sent
AuthSend(call) ==
    /\ ~authPending[call]
    /\ authStore' = [authStore EXCEPT !.isLoading = TRUE, !.error = NULL]
    /\ authPending' = [authPending EXCEPT ![call] = TRUE]
    /\ UNCHANGED notAuth

\* the catch blocks of login, register and updateProfile
AuthFailed(call, message) ==
    /\ authStore' = [authStore EXCEPT !.isLoading = FALSE, !.error = message]
    /\ authPending' = [authPending EXCEPT ![call] = FALSE]
    /\ UNCHANGED notAuth

\* login, up to its await
login == AuthSend("login")

\* login, from the answer of the server on
loginSettled(fulfilled) ==
    /\ authPending["login"]
    /\ IF fulfilled
       THEN /\ authStore' = [authStore EXCEPT !.user = "u1", !.token = "k1",
                                              !.isAuthenticated = TRUE, !.isLoading = FALSE]
            /\ authPending' = [authPending EXCEPT !["login"] = FALSE]
            /\ UNCHANGED notAuth
       ELSE AuthFailed("login", "Login failed")

\* register, up to its await
register == AuthSend("register")

\* register, from the answer of the server on
registerSettled(fulfilled) ==
    /\ authPending["register"]
    /\ IF fulfilled
       THEN /\ authStore' = [authStore EXCEPT !.user = "u2", !.token = "k2",
                                              !.isAuthenticated = TRUE, !.isLoading = FALSE]
            /\ authPending' = [authPending EXCEPT !["register"] = FALSE]
            /\ UNCHANGED notAuth
       ELSE AuthFailed("register", "Registration failed")

\* logout
logout ==
    /\ authStore' = [authStore EXCEPT !.user = NULL, !.token = NULL, !.isAuthenticated = FALSE]
    /\ UNCHANGED <<authPending, notAuth>>

\* updateProfile, up to its await
updateProfile == AuthSend("updateProfile")

\* updateProfile, from the answer of the server on
updateProfileSettled(fulfilled) ==
    /\ authPending["updateProfile"]
    /\ IF fulfilled
       THEN /\ authStore' = [authStore EXCEPT !.user = "u1", !.isLoading = FALSE]
            /\ authPending' = [authPending EXCEPT !["updateProfile"] = FALSE]
            /\ UNCHANGED notAuth
       ELSE AuthFailed("updateProfile", "Update failed")

\* checkAuth, up to its await: returns at once without a token
checkAuth ==
    /\ ~authPending["checkAuth"]
    /\ Truthy(authStore.token)
    /\ authPending' = [authPending EXCEPT !["checkAuth"] = TRUE]
    /\ UNCHANGED <<authStore, notAuth>>

\* checkAuth, from the answer of the server on
checkAuthSettled(fulfilled) ==
    /\ authPending["checkAuth"]
    /\ authStore' = IF fulfilled
                    THEN [authStore EXCEPT !.user = "u1", !.isAuthenticated = TRUE]
                    ELSE [authStore EXCEPT !.user = NULL, !.token = NULL,
                                           !.isAuthenticated = FALSE]
    /\ authPending' = [authPending EXCEPT !["checkAuth"] = FALSE]
    /\ UNCHANGED notAuth

\* clearError
clearError ==
    /\ authStore' = [authStore EXCEPT !.error = NULL]
    /\ UNCHANGED <<authPending, notAuth>>

-----------------------------------------------------------------------------
(* routeLegs.js: POST /:id/accept request by request.  On the database path  *)
(* the handler awaits each query, so the queries of two requests interleave; *)
(* on the mock path the handler runs to its answer without awaiting.         *)

\* no accept request sent
NoAccept ==
    [pc |-> "idle", id |-> 0, vehicle_id |-> NULL, proposed_price |-> None,
     shipment_id |-> NULL, status |-> 0, error |-> "none"]

AcceptsInit == accepts = [t \in Transporters |-> NoAccept]

\* res.status(status).json({ error }) / res.json(leg) of the request of user
AcceptAnswer(user, status, error) ==
    accepts' = [accepts EXCEPT ![user].pc = "done", ![user].status = status,
                               ![user].error = error]

\* the request moves on to its next query
AcceptGoto(user, pc) == accepts' = [accepts EXCEPT ![user].pc = pc]

\* database path: the request arrives; vehicle_id is required
AcceptBegin(user, id, vehicle_id, proposed_price) ==
    /\ supabase
    /\ accepts[user].pc = "idle"
    /\ LET req == [accepts[user] EXCEPT !.id = id, !.vehicle_id = vehicle_id,
                                        !.proposed_price = proposed_price]
       IN  accepts' = [accepts EXCEPT ![user] =
              IF ~Truthy(vehicle_id)
              THEN [req EXCEPT !.pc = "done", !.status = 400, !.error = "Vehicle ID is required"]
              ELSE [req EXCEPT !.pc = "existing"]]
    /\ UNCHANGED <<legVars, priceVars, optVars, etaVars, vehicleVars, shipmentVars, cancelVars, tripVars, authVars>>

\* database path: select status, transporter_id of the leg
AcceptSelectExisting(user) ==
    /\ accepts[user].pc = "existing"
    /\ IF IndexOf(accepts[user].id) = {}
       THEN AcceptAnswer(user, 404, "Route leg not found")
       ELSE LET existing == routeLegs[CHOOSE i \in IndexOf(accepts[user].id) : TRUE]
            IN  IF existing.transporter_id # NULL
                THEN AcceptAnswer(user, 400, "Route leg already assigned to another transporter")
                ELSE AcceptGoto(user, "vehicle")
    /\ UNCHANGED <<legVars, priceVars, optVars, etaVars, vehicleVars, shipmentVars, cancelVars, tripVars, authVars>>

\* database path: select the vehicle with this id and transporter_id = req.user.id
AcceptSelectVehicle(user) ==
    /\ accepts[user].pc = "vehicle"
    /\ IF vehicleOwner(accepts[user].vehicle_id) # user
       THEN AcceptAnswer(user, 400, "Vehicle not found or does not belong to you")
       ELSE AcceptGoto(user, "update")
    /\ UNCHANGED <<legVars, priceVars, optVars, etaVars, vehicleVars, shipmentVars, cancelVars, tripVars, authVars>>

\* database path: update route_legs set ... where id = id
AcceptUpdate(user) ==
    /\ accepts[user].pc = "update"
    /\ IF IndexOf(accepts[user].id) = {}
       THEN /\ AcceptAnswer(user, 500, "error")
            /\ UNCHANGED routeLegs
       ELSE LET index == CHOOSE i \in IndexOf(accepts[user].id) : TRUE
                leg == [routeLegs[index] EXCEPT !.transporter_id = user,
                                                !.vehicle_id = accepts[user].vehicle_id,
                                                !.agreed_price = accepts[user].proposed_price,
                                                !.status = "assigned"]
            IN  /\ routeLegs' = [routeLegs EXCEPT ![index] = leg]
                /\ accepts' = [accepts EXCEPT ![user].pc = "allLegs",
                                              ![user].shipment_id = leg.shipment_id]
    /\ UNCHANGED <<supabase, shipments, res, created, priceVars, optVars,
                   etaVars, vehicleVars, shipmentVars, cancelVars, tripVars, authVars>>

\* database path: select status of the legs of the shipment
AcceptSelectAllLegs(user) ==
    /\ accepts[user].pc = "allLegs"
    /\ IF AllLegsAssigned(routeLegs, accepts[user].shipment_id)
       THEN AcceptGoto(user, "shipment")
       ELSE AcceptAnswer(user, 200, "none")
    /\ UNCHANGED <<legVars, priceVars, optVars, etaVars, vehicleVars, shipmentVars, cancelVars, tripVars, authVars>>

\* database path: update shipments set status = 'assigned'; res.json(leg)
AcceptUpdateShipment(user) ==
    /\ accepts[user].pc = "shipment"
    /\ shipments' = [shipments EXCEPT ![accepts[user].shipment_id] = "assigned"]
    /\ AcceptAnswer(user, 200, "none")
    /\ UNCHANGED <<supabase, routeLegs, res, created, priceVars, optVars,
                   etaVars, vehicleVars, shipmentVars, cancelVars, tripVars, authVars>>

\* mock path: the whole handler, from the request to its answer
AcceptMock(user, id, vehicle_id, proposed_price) ==
    /\ ~supabase
    /\ accepts[user].pc = "idle"
    /\ AcceptLeg(user, id, vehicle_id, proposed_price)
    /\ accepts' = [accepts EXCEPT ![user] =
          [pc |-> "done", id |-> id, vehicle_id |-> vehicle_id,
           proposed_price |-> proposed_price, shipment_id |-> NULL,
           status |-> res'.status,
           error |-> IF res'.status = 200 THEN "none"
                     ELSE IF res'.status = 404 THEN "Route leg not found"
                     ELSE IF ~Truthy(vehicle_id) THEN "Vehicle ID is required"
                     ELSE "Route leg already assigned"]]

\* the other routers and pages at rest
AuxInit ==
    /\ GOOGLE_MAPS_API_KEY = FALSE
    /\ EtaInit
    /\ VehiclesInit
    /\ ShipmentsInit
    /\ AcceptsInit
    /\ CancelsInit
    /\ ReturnTripsInit
    /\ AuthInit

-----------------------------------------------------------------------------
Init ==
    /\ supabase \in BOOLEAN
    /\ routeLegs = <<>>
    /\ shipments = [s \in ShipmentIds |-> "posted"]
    /\ res = Response(0, <<>>)
    /\ created = <<>>
    /\ priceReq = NoRequest
    /\ priceRes = [status |-> 0]
    /\ optClient = ClientInit
    /\ optCall = NoCall
    /\ AuxInit

Create ==
    \E s \in ShipmentIds \cup {NULL}, legs \in ListsOf(LegInputs), failAt \in 0..MaxChain :
        CreateLegs(s, legs, failAt)

Get == \E s \in ShipmentIds : GetShipmentLegs(s)

Accept ==
    \E user \in Transporters, id \in 1..MaxLegs, vehicle_id \in VehicleIds \cup {NULL},
       proposed_price \in Prices :
        AcceptLeg(user, id, vehicle_id, proposed_price) /\ UNCHANGED acceptVars

Start == \E user \in Transporters, id \in 1..MaxLegs : StartLeg(user, id)

Complete == \E user \in Transporters, id \in 1..MaxLegs : CompleteLeg(user, id)

Update ==
    \E user \in Transporters, id \in 1..MaxLegs, body \in UpdateBodies :
        UpdateLeg(user, id, body.agreed_price, body.status, body.vehicle_id)

Next == Create \/ Accept \/ Start \/ Complete \/ Update

Spec == Init /\ [][Next]_vars

CreateChain ==
    \E s \in ShipmentIds \cup {NULL}, legs \in ListsOf(ChainLegInputs), failAt \in 0..MaxChain :
        CreateLegs(s, legs, failAt)

NextChain == CreateChain \/ Get

SpecChain == Init /\ [][NextChain]_vars

\* one pricing request, drawn from the requests of the model, and its answer
InitPrice ==
    /\ supabase = FALSE
    /\ routeLegs = <<>>
    /\ shipments = [s \in ShipmentIds |-> "posted"]
    /\ res = Response(0, <<>>)
    /\ created = <<>>
    /\ priceReq \in ShippingRequests \cup FuelRequests
    /\ priceRes = [status |-> 0]
    /\ optClient = ClientInit
    /\ optCall = NoCall
    /\ AuxInit

Shipping == ShippingPrice(priceReq)

Fuel == FuelCalculate(priceReq)

NextPrice == Shipping \/ Fuel

SpecPrice == InitPrice /\ [][NextPrice]_vars

\* requests of a direct caller
ShipmentLists ==
    UNION { {s \in [1..Cardinality(T) -> T] : \A i, j \in 1..Cardinality(T) : s[i] = s[j] => i = j} :
            T \in SUBSET OptShipments }

ApiRequests ==
    [ origin : Points, destination : Points, shipments : ShipmentLists,
      vehicles : Fleets, urgency_multiplier : {10} ]

InitOpt ==
    /\ supabase = FALSE
    /\ routeLegs = <<>>
    /\ shipments = [s \in ShipmentIds |-> "posted"]
    /\ res = Response(0, <<>>)
    /\ created = <<>>
    /\ priceReq = NoRequest
    /\ priceRes = [status |-> 0]
    /\ optClient = ClientInit
    /\ optCall = NoCall
    /\ AuxInit

Post == \E req \in ApiRequests : PostOptimizeChain(req)

NextOpt == Post \/ BeginSolve \/ PreferredSolves \/ PreferredFails

SpecOpt == InitOpt /\ [][NextOpt]_vars

\* the call is synchronous and the solver honours its time budget
SpecOptLive ==
    SpecOpt /\ WF_vars(BeginSolve) /\ WF_vars(PreferredSolves \/ PreferredFails)

Selecting == \E which \in {"origin", "destination"} : StartSelecting(which)

MapClick == \E point \in Points : onMapClick(point)

Optimize ==
    \E weight \in ClientWeights, urgency \in UrgencyOptions, vehicles \in Fleets :
        handleOptimize(weight, urgency, vehicles)

ClickRoute == \E index \in 1..MaxRoutes : SelectRoute(index)

NextPage ==
    \/ Selecting \/ MapClick \/ resetSelection \/ Optimize \/ ClickRoute
    \/ BeginSolve \/ PreferredSolves \/ PreferredFails
    \/ handleOptimizeResponse \/ handleOptimizeError

SpecPage == InitOpt /\ [][NextPage]_vars

InitEta ==
    /\ supabase = FALSE
    /\ routeLegs = <<>>
    /\ shipments = [s \in ShipmentIds |-> "posted"]
    /\ res = Response(0, <<>>)
    /\ created = <<>>
    /\ priceReq = NoRequest
    /\ priceRes = [status |-> 0]
    /\ optClient = ClientInit
    /\ optCall = NoCall
    /\ GOOGLE_MAPS_API_KEY \in BOOLEAN
    /\ EtaInit
    /\ VehiclesInit
    /\ ShipmentsInit
    /\ AcceptsInit
    /\ CancelsInit
    /\ ReturnTripsInit
    /\ AuthInit

RouteOfPage == \E origin, destination \in Coordinates : calculateRoute(origin, destination)

EtaOfCaller ==
    \E origin, destination \in {None} \cup {Some(c) : c \in Coordinates} :
        SendEta("api", origin, destination)

NextEta ==
    RouteOfPage \/ EtaOfCaller \/ PostEta \/ EtaNetworkError \/ calculateRouteAnswer \/ EtaAnswered

SpecEta == InitEta /\ [][NextEta]_vars

InitVehicles ==
    /\ supabase \in BOOLEAN
    /\ routeLegs = <<>>
    /\ shipments = [s \in ShipmentIds |-> "posted"]
    /\ res = Response(0, <<>>)
    /\ created = <<>>
    /\ priceReq = NoRequest
    /\ priceRes = [status |-> 0]
    /\ optClient = ClientInit
    /\ optCall = NoCall
    /\ AuxInit

PostVehicle ==
    \E user \in Transporters, body \in AddVehicleBodies, error \in BOOLEAN :
        AddVehicle(user, body, error)

PutVehicle ==
    \E user \in Transporters, id \in 1..MaxVehicles, body \in UpdateVehicleBodies :
        UpdateVehicle(user, id, body)

NextVehicles == PostVehicle \/ PutVehicle

SpecVehicles == InitVehicles /\ [][NextVehicles]_vars

PostShipment ==
    \E user \in Shippers, body \in CreateShipmentBodies, error \in BOOLEAN :
        CreateShipment(user, body, error)

PutShipment ==
    \E user \in Shippers, id \in 1..MaxShipments, body \in UpdateShipmentBodies :
        UpdateShipment(user, id, body)

NextShipments == PostShipment \/ PutShipment

SpecShipments == InitVehicles /\ [][NextShipments]_vars

-----------------------------------------------------------------------------
(* Route legs: claims *)

\* the shipments that have a leg carried by vehicle v
ShipmentsOn(v) ==
    {routeLegs[i].shipment_id : i \in {j \in 1..Len(routeLegs) : routeLegs[j].vehicle_id = v}}

\* C1: for every vehicle, the weights of the shipments whose legs are assigned to it
\* sum to at most the vehicle's max_capacity_kg.
C1_CapacityRespected ==
    \A v \in VehicleIds : SumWeights(ShipmentsOn(v)) <= max_capacity_kg(v)

\* the request answered by the last 201
LastCreated == created[Len(created)]

\* C2: the legs of a creation response are numbered 1..n in the order supplied, and
\* is_last_leg is true for the n-th leg and for no other.
C2_SequenceAndLastLeg ==
    res.status = 201 =>
        /\ Len(res.body) = Len(LastCreated.legs)
        /\ Len(res.body) >= 1
        /\ \A i \in 1..Len(res.body) :
              /\ res.body[i].leg_sequence_index = i
              /\ res.body[i].is_last_leg = (i = Len(res.body))
              /\ res.body[i].shipment_id = LastCreated.shipment_id
              /\ res.body[i].start_location_name = LastCreated.legs[i].start_location_name
              /\ res.body[i].end_location_name = LastCreated.legs[i].end_location_name

C2_Witness ==
    /\ res.status = 201
    /\ Len(res.body) = MaxChain
    /\ res.body[Len(res.body)].is_last_leg
    /\ ~res.body[1].is_last_leg

\* the creation requests answered 201 for a shipment
ChainsOf(s) == SelectSeq(created, LAMBDA c : c.shipment_id = s)

LegNames(l) == <<l.start_location_name, l.end_location_name>>

\* body read back for shipment s against the chains supplied for s
RoundTripOK(s, body) ==
    /\ \A n \in 1..Len(ChainsOf(s)) :
          LET c    == ChainsOf(s)[n]
              mine == SelectSeq(body, LAMBDA l : l.id \in Range(c.ids))
          IN  /\ Len(mine) = Len(c.legs)
              /\ \A k \in 1..Len(c.legs) :
                    /\ mine[k].id = c.ids[k]
                    /\ LegNames(mine[k]) = LegNames(c.legs[k])
    /\ (Len(ChainsOf(s)) = 1 /\ Len(LegsOfShipment(s)) = Len(ChainsOf(s)[1].legs)) =>
          [k \in 1..Len(body) |-> LegNames(body[k])]
              = [k \in 1..Len(ChainsOf(s)[1].legs) |-> LegNames(ChainsOf(s)[1].legs[k])]

C4_HandoffContinuity ==
    \A n \in 1..Len(created) : \A k \in 1..(Len(created[n].legs) - 1) :
        routeLegs[created[n].ids[k]].end_location_name
            = routeLegs[created[n].ids[k + 1]].start_location_name

-----------------------------------------------------------------------------
(* Pricing: claims *)

ShippingAnswered == priceRes.status = 200 /\ priceRes.kind = "shipping-price"

FuelAnswered == priceRes.status = 200 /\ priceRes.kind = "calculate"

\* the amounts of a shipping-price answer by name
ShippingAmounts ==
    [ base_cost |-> priceRes.breakdown.base_cost,
      vehicle_cost |-> priceRes.breakdown.vehicle_cost,
      cargo_adjustment |-> priceRes.breakdown.cargo_adjustment,
      urgency_adjustment |-> priceRes.breakdown.urgency_adjustment,
      return_cost |-> priceRes.breakdown.return_cost,
      subtotal |-> priceRes.breakdown.subtotal,
      min |-> priceRes.suggested_price.min,
      max |-> priceRes.suggested_price.max,
      recommended |-> priceRes.suggested_price.recommended ]

\* C9: every amount of a pricing answer (the cost components, the subtotal or total and
\* the suggested prices) is >= 0.
C9_NeverNegative ==
    /\ ShippingAnswered =>
          \A f \in DOMAIN ShippingAmounts : f \notin priceRes.nan => ShippingAmounts[f] >= 0
    /\ FuelAnswered =>
          /\ priceRes.costs.fuel >= 0
          /\ priceRes.costs.toll_estimate >= 0
          /\ priceRes.costs.driver_allowance >= 0
          /\ priceRes.costs.maintenance >= 0
          /\ priceRes.costs.total >= 0

\* the multipliers the claim names, in tenths
ClaimedUrgencyLevels == {"standard", "priority", "express", "emergency"}

ClaimedMultiplier(u) ==
    CASE u = "standard" -> 10 [] u = "priority" -> 15 [] u = "express" -> 20 [] u = "emergency" -> 30

\* C10 as stated: the cost with urgency u is multiplier(u) times the cost with standard
\* urgency, for standard = 1.0, priority = 1.5, express = 2.0, emergency = 3.0.
C10_UrgencyScalesWholeCost ==
    (/\ ShippingAnswered
     /\ priceReq.distance_km > 0 /\ priceReq.weight_tons > 0
     /\ "subtotal" \notin priceRes.nan
     /\ Urgency(priceReq) \in ClaimedUrgencyLevels) =>
        10 * ShippingCosts(priceReq).subtotal
            = ClaimedMultiplier(Urgency(priceReq))
                * ShippingCosts([priceReq EXCEPT !.urgency = "standard"]).subtotal

\* the multipliers of the shipping-price endpoint, in tenths
EndpointMultiplier(u) ==
    CASE u = "express" -> 13 [] u = "overnight" -> 15 [] OTHER -> 10

\* C10 as amended: the urgency level adds (multiplier - 1) x base cost, for normal = 1.0,
\* express = 1.3, overnight = 1.5 and 1.0 for every other level; vehicle cost, cargo
\* adjustment and return cost are those of normal urgency, so the subtotal is the
\* subtotal of normal urgency plus the urgency adjustment.
C10_UrgencyAdjustsBaseCost ==
    ShippingAnswered =>
        LET normal == [priceReq EXCEPT !.urgency = "normal"]
            m      == EndpointMultiplier(Urgency(priceReq))
            base   == priceRes.breakdown.base_cost
        IN  /\ priceRes.breakdown.urgency_adjustment = RoundDiv(base * (m - 10), 10)
            /\ priceRes.breakdown.base_cost = ShippingBody(normal).breakdown.base_cost
            /\ priceRes.breakdown.vehicle_cost = ShippingBody(normal).breakdown.vehicle_cost
            /\ priceRes.breakdown.cargo_adjustment = ShippingBody(normal).breakdown.cargo_adjustment
            /\ priceRes.breakdown.return_cost = ShippingBody(normal).breakdown.return_cost
            /\ priceRes.nan = ShippingBody(normal).nan
            /\ ShippingCosts(priceReq).subtotal
                  = ShippingCosts(normal).subtotal + 100 * base * (m - 10)

C10_Witness ==
    /\ ShippingAnswered
    /\ Urgency(priceReq) = "express"
    /\ priceRes.nan = {}
    /\ priceRes.breakdown.urgency_adjustment > 0
    /\ priceRes.breakdown.vehicle_cost > 0
    /\ priceRes.breakdown.subtotal
          > ShippingBody([priceReq EXCEPT !.urgency = "normal"]).breakdown.subtotal

-----------------------------------------------------------------------------
(* Optimizer: claims *)

InputIds(req) == {req.shipments[i].id : i \in 1..Len(req.shipments)}

\* the shipments that appear in a leg of a returned route
PlacedIds(result) ==
    UNION { {result.routes[r].legs[l].shipment_id : l \in 1..Len(result.routes[r].legs)} :
            r \in 1..Len(result.routes) } \ {NULL}

RECURSIVE TotalDemand(_)
TotalDemand(s) == IF s = <<>> THEN 0 ELSE s[1].weight_kg + TotalDemand(Tail(s))

RECURSIVE TotalCapacity(_)
TotalCapacity(vs) == IF vs = <<>> THEN 0 ELSE vs[1].capacity_kg + TotalCapacity(Tail(vs))

\* C5: when an optimize call has ended, every shipment id of its input is in a leg of a
\* returned route or in unassigned_shipment_ids; when total demand exceeds the sum of
\* the vehicle capacities the call ends Infeasible and the list holds exactly the
\* shipments that are in no route.
C5_NoCargoDropped ==
    optCall.state \in TerminalStates =>
        LET req    == optCall.request[1]
            result == optCall.result[1]
        IN  /\ InputIds(req) \subseteq PlacedIds(result) \cup Range(result.unassigned_shipment_ids)
            /\ TotalDemand(req.shipments) > TotalCapacity(req.vehicles) =>
                  /\ optCall.state = "Infeasible"
                  /\ result.unassigned_shipment_ids # <<>>
                  /\ Range(result.unassigned_shipment_ids) = InputIds(req) \ PlacedIds(result)

C5_Witness ==
    /\ optCall.state = "Infeasible"
    /\ TotalDemand(optCall.request[1].shipments) > TotalCapacity(optCall.request[1].vehicles)
    /\ PlacedIds(optCall.result[1]) # {}
    /\ optCall.result[1].unassigned_shipment_ids # <<>>

CallMoves ==
    ((TerminalStates \cup {"Idle"}) \X {"Unsolved"})
        \cup {<<"Unsolved", "Solving">>}
        \cup ({"Solving"} \X TerminalStates)

\* C7: a call goes Unsolved -> Solving -> one of Solved, SolvedWithFallback, Infeasible
\* and takes no other step; a call that is Unsolved gets to Solving and a call that is
\* Solving gets to a terminal state; when the preferred solver failed the call ends
\* SolvedWithFallback or Infeasible with a result, never in an error; the result
\* names the strategy that produced it.
C7_CallLifecycle ==
    /\ [][optCall'.state # optCall.state => <<optCall.state, optCall'.state>> \in CallMoves]_vars
    /\ [](optCall.state \in CallStates)
    /\ [](optCall.preferredFailed =>
            /\ optCall.state \in {"SolvedWithFallback", "Infeasible"}
            /\ optCall.result # None
            /\ optCall.result[1].solver = "heuristic")
    /\ []((optCall.state \in TerminalStates /\ ~optCall.preferredFailed) =>
            /\ optCall.state = "Solved"
            /\ optCall.result # None
            /\ optCall.result[1].solver = "exact")
    /\ (optCall.state = "Unsolved" ~> optCall.state = "Solving")
    /\ (optCall.state = "Solving" ~> optCall.state \in TerminalStates)

C7_Witness ==
    /\ optCall.state = "SolvedWithFallback"
    /\ optCall.preferredFailed
    /\ optCall.result[1].solver = "heuristic"
    /\ optCall.request[1].shipments # <<>>

-----------------------------------------------------------------------------
(* Route information: claims *)

\* C11: when calculateRoute has ended and the lookup threw or returned no distance,
\* routeInfo is the fallback (haversine distance with the road factor 1.3, duration
\* at 50 km/h) and the call has added a warning to the notifications.
C11_FallbackWithWarning ==
    ( /\ etaCall.pc = "done"
      /\ etaCall.caller = "page"
      /\ (etaCall.res.status # 200 \/ etaCall.res.distance_km = 0) ) =>
        /\ routeInfo = Some(FallbackRouteInfo(etaCall.origin[1], etaCall.destination[1]))
        /\ Len(notifications) > etaCall.before
        /\ notifications[Len(notifications)] = "warning"

\* C12: for identical coordinates the answer of /routes/eta is 200 with distance 0 and
\* duration 0, with the provider (when it answers) and without a key alike, and the
\* route information of the page has distance 0 and duration 0.
C12_IdenticalCoordinatesZero ==
    ( /\ etaCall.origin # None
      /\ etaCall.origin = etaCall.destination ) =>
        /\ ( /\ etaCall.pc \in {"answered", "done"}
             /\ etaCall.provider \in {"absent", "OK"} ) =>
              /\ etaCall.res.status = 200
              /\ etaCall.res.distance_km = 0
              /\ etaCall.res.duration_hours = 0
        /\ (etaCall.pc = "done" /\ etaCall.caller = "page") =>
              /\ routeInfo # None
              /\ routeInfo[1].distance_km = 0
              /\ routeInfo[1].duration_hours = 0

-----------------------------------------------------------------------------
(* Vehicles: claims *)

\* C13: every stored vehicle has max_capacity_kg > 0.
C13_CapacityPositive ==
    \A i \in 1..Len(mockVehicles) : mockVehicles[i].max_capacity_kg > 0

-----------------------------------------------------------------------------
(* Shipments: claims *)

\* C14: every stored shipment has its origin and destination latitude within -90..90
\* and longitude within -180..180.
C14_CoordinatesInRange ==
    \A i \in 1..Len(mockShipments) :
        /\ mockShipments[i].origin_lat \in -90..90
        /\ mockShipments[i].dest_lat \in -90..90
        /\ mockShipments[i].origin_lng \in -180..180
        /\ mockShipments[i].dest_lng \in -180..180

-----------------------------------------------------------------------------
(* Pricing: further claims *)

\* a shipping-price request with a positive distance and weight
PositiveShippingRequest == priceReq.distance_km > 0 /\ priceReq.weight_tons > 0

\* C15: a price request with distance_km = 0 and the other inputs valid is answered 200,
\* and its distance-dependent amounts are 0.
C15_ZeroDistancePriced ==
    /\ ( /\ priceReq.kind = "shipping-price"
         /\ priceRes.status # 0
         /\ priceReq.distance_km = 0
         /\ priceReq.weight_tons > 0
         /\ priceReq.vehicle_type \in PricedVehicleTypes ) =>
            /\ priceRes.status = 200
            /\ priceRes.breakdown.base_cost = 0
            /\ priceRes.breakdown.vehicle_cost = 0
            /\ priceRes.breakdown.subtotal = 0
    /\ ( /\ priceReq.kind = "calculate"
         /\ priceRes.status # 0
         /\ priceReq.distance_km = 0
         /\ priceReq.vehicle_type \in PricedVehicleTypes
         /\ priceReq.load_factor <= 10 ) =>
            /\ priceRes.status = 200
            /\ priceRes.costs.total = 0

\* C16: for every answered request the cargo adjustment is >= 0, and 0 for general
\* cargo; an absent or unknown cargo class gets the amounts of general cargo; every
\* amount that is a number is >= the same amount for general cargo.
C16_CargoNeverLowers ==
    ShippingAnswered =>
        LET general == ShippingBody([priceReq EXCEPT !.cargo_type = "general"])
        IN  /\ priceRes.breakdown.cargo_adjustment >= 0
            /\ general.breakdown.cargo_adjustment = 0
            /\ cargoMultiplier("general") = Some(10)
            /\ cargoMultiplier(priceReq.cargo_type) = None =>
                  /\ priceRes.breakdown = general.breakdown
                  /\ priceRes.suggested_price = general.suggested_price
            /\ priceRes.nan = general.nan
            /\ "subtotal" \notin priceRes.nan =>
                  /\ priceRes.breakdown.subtotal >= general.breakdown.subtotal
                  /\ priceRes.suggested_price.min >= general.suggested_price.min
                  /\ priceRes.suggested_price.max >= general.suggested_price.max
                  /\ priceRes.suggested_price.recommended >= general.suggested_price.recommended
                  /\ ShippingCosts(priceReq).subtotal
                        >= ShippingCosts([priceReq EXCEPT !.cargo_type = "general"]).subtotal

\* C17: for a positive distance and weight and a priced vehicle class, the return cost
\* is half of base cost + vehicle cost when return_empty is true and 0 when it is
\* false, and the one-way subtotal is at most the subtotal with an empty return.
C17_ReturnIsHalfOfOneWay ==
    ( /\ ShippingAnswered
      /\ PositiveShippingRequest
      /\ priceReq.vehicle_type \in PricedVehicleTypes ) =>
        LET c      == ShippingCosts(priceReq)
            oneWay == ShippingCosts([priceReq EXCEPT !.return_empty = FALSE])
            return == ShippingCosts([priceReq EXCEPT !.return_empty = TRUE])
        IN  /\ priceReq.return_empty => 2 * c.returnCost = c.baseCost + c.vehicleCost
            /\ ~priceReq.return_empty => c.returnCost = 0
            /\ oneWay.subtotal <= return.subtotal

\* the legs of one shipment as POST / stores them, and no accept request sent yet
InitAccept ==
    /\ supabase \in BOOLEAN
    /\ routeLegs \in {[i \in 1..Len(legs) |-> LegData("s1", legs, i, i)] :
                          legs \in ListsOf(LegInputs) \ {<<>>}}
    /\ shipments = [s \in ShipmentIds |-> "posted"]
    /\ res = Response(0, <<>>)
    /\ created = <<>>
    /\ priceReq = NoRequest
    /\ priceRes = [status |-> 0]
    /\ optClient = ClientInit
    /\ optCall = NoCall
    /\ AuxInit

AcceptArrives ==
    \E user \in Transporters, id \in 1..MaxLegs, vehicle_id \in VehicleIds \cup {NULL},
       proposed_price \in Prices :
        AcceptBegin(user, id, vehicle_id, proposed_price)

AcceptOnMock ==
    \E user \in Transporters, id \in 1..MaxLegs, vehicle_id \in VehicleIds \cup {NULL},
       proposed_price \in Prices :
        AcceptMock(user, id, vehicle_id, proposed_price)

SelectExisting == \E user \in Transporters : AcceptSelectExisting(user)

SelectVehicle == \E user \in Transporters : AcceptSelectVehicle(user)

UpdateRouteLeg == \E user \in Transporters : AcceptUpdate(user)

SelectAllLegs == \E user \in Transporters : AcceptSelectAllLegs(user)

UpdateShipmentStatus == \E user \in Transporters : AcceptUpdateShipment(user)

NextAccept ==
    \/ AcceptArrives
    \/ AcceptOnMock
    \/ SelectExisting
    \/ SelectVehicle
    \/ UpdateRouteLeg
    \/ SelectAllLegs
    \/ UpdateShipmentStatus

SpecAccept == InitAccept /\ [][NextAccept]_vars

-----------------------------------------------------------------------------
(* Route legs: concurrent accepts *)

\* C18: of two accept requests of different transporters for the same leg at most one
\* is answered 200 and a request that finds the leg taken is answered 'already
\* assigned'; a leg whose accept was answered 200 still has the transporter_id and the
\* vehicle_id of that request.
C18_ClaimedByAtMostOne ==
    \A t \in Transporters :
        (accepts[t].pc = "done" /\ accepts[t].status = 200) =>
            /\ \A u \in Transporters \ {t} :
                  (accepts[u].pc = "done" /\ accepts[u].id = accepts[t].id) =>
                      /\ accepts[u].status = 400
                      /\ accepts[u].error \in
                            {"Vehicle ID is required",
                             "Route leg already assigned",
                             "Route leg already assigned to another transporter",
                             "Vehicle not found or does not belong to you"}
            /\ \A i \in IndexOf(accepts[t].id) :
                  /\ routeLegs[i].transporter_id = t
                  /\ routeLegs[i].vehicle_id = accepts[t].vehicle_id

-----------------------------------------------------------------------------
(* Route legs: what the operations on a stored leg change *)

\* the fields of a row other than transporter_id, vehicle_id, agreed_price and status
Identity(leg) ==
    [id                  |-> leg.id,
     shipment_id         |-> leg.shipment_id,
     leg_sequence_index  |-> leg.leg_sequence_index,
     is_last_leg         |-> leg.is_last_leg,
     start_location_name |-> leg.start_location_name,
     end_location_name   |-> leg.end_location_name]

ForwardMoves == {<<"pending", "assigned">>, <<"assigned", "active">>, <<"active", "completed">>}

\* C20: in every step a stored leg keeps its status or moves one place forward along
\* pending -> assigned -> active -> completed, and a leg that is active or completed
\* has a transporter.
C20_StatusOnlyForward ==
    [][\A i \in 1..Len(routeLegs) :
          /\ i <= Len(routeLegs')
          /\ \/ routeLegs'[i].status = routeLegs[i].status
             \/ <<routeLegs[i].status, routeLegs'[i].status>> \in ForwardMoves
          /\ routeLegs'[i].status \in {"active", "completed"} =>
                routeLegs'[i].transporter_id # NULL]_vars

-----------------------------------------------------------------------------
(* Route legs and the shipment's status *)

\* C21: a complete request answered 200 for the leg flagged is_last_leg sets the
\* shipment's status to 'delivered', and for any other leg leaves every shipment's status
\* as it was, on either backend.
C21_LastLegDelivers ==
    [][\A user \in Transporters, id \in 1..MaxLegs :
          (CompleteLeg(user, id) /\ res'.status = 200) =>
              LET leg == routeLegs[CHOOSE i \in Matching(id, user, "active") : TRUE]
              IN  IF leg.is_last_leg
                  THEN shipments' = [shipments EXCEPT ![leg.shipment_id] = "delivered"]
                  ELSE shipments' = shipments]_vars

\* C22: a shipment with status 'delivered' has no leg that is pending, assigned or active.
C22_DeliveredMeansAllCompleted ==
    \A s \in ShipmentIds :
        shipments[s] = "delivered" =>
            \A i \in 1..Len(routeLegs) :
                routeLegs[i].shipment_id = s => routeLegs[i].status = "completed"

\* the place of a status along posted -> processing -> assigned -> in_transit -> delivered
StatusRank(status) ==
    CASE status = "posted"     -> 0
      [] status = "processing" -> 1
      [] status = "assigned"   -> 2
      [] status = "in_transit" -> 3
      [] status = "delivered"  -> 4
      [] OTHER                 -> 5

\* C23: no step moves a shipment's status to an earlier place along posted ->
\* processing -> assigned -> in_transit -> delivered, and a delivered shipment stays
\* delivered.
C23_ShipmentStatusForward ==
    [][\A s \in ShipmentIds :
          /\ StatusRank(shipments'[s]) >= StatusRank(shipments[s])
          /\ shipments[s] = "delivered" => shipments'[s] = "delivered"]_vars

\* C24: the legs of every shipment have the leg_sequence_index values 1..k, each once,
\* and when there are legs exactly one of them has is_last_leg = true.
C24_IndicesAndOneLastLeg ==
    \A s \in ShipmentIds :
        LET legs == LegsOfShipment(s)
            k    == Len(legs)
        IN  /\ \A n \in 1..k :
                  Cardinality({i \in 1..k : legs[i].leg_sequence_index = n}) = 1
            /\ k > 0 => Cardinality({i \in 1..k : legs[i].is_last_leg}) = 1

\* C25: a creation request answered with an error stores none of its legs and leaves
\* every shipment's status as it was.
C25_CreateAllOrNothing ==
    [][\A s \in ShipmentIds \cup {NULL}, legs \in ListsOf(ChainLegInputs), failAt \in 0..MaxChain :
          (CreateLegs(s, legs, failAt) /\ res'.status >= 400) =>
              /\ routeLegs' = routeLegs
              /\ shipments' = shipments]_vars

PutStatus ==
    \E user \in Users, id \in 1..MaxShipments, status \in RequestStatuses :
        UpdateStatus(user, id, status)

CancelArrives == \E user \in Shippers, id \in 1..MaxShipments : CancelSelect(user, id)

CancelUpdates == \E user \in Shippers : CancelUpdate(user)

CancelOnMock == \E user \in Shippers, id \in 1..MaxShipments : CancelMock(user, id)

NextCancel == PutStatus \/ CancelArrives \/ CancelUpdates \/ CancelOnMock

SpecCancel == InitVehicles /\ [][NextCancel]_vars

-----------------------------------------------------------------------------
(* Shipments: cancellation *)

\* C26: a step that moves a shipment to 'cancelled' finds it 'posted', and is the
\* update of a cancel request of the shipper who owns it.
C26_CancelOnlyFromPosted ==
    [][\A i \in 1..Len(mockShipments) :
          ( /\ i <= Len(mockShipments')
            /\ mockShipments'[i].status = "cancelled"
            /\ mockShipments[i].status # "cancelled" ) =>
              /\ mockShipments[i].status = "posted"
              /\ \E u \in Shippers :
                    /\ u = mockShipments[i].shipper_id
                    /\ cancels[u].pc # "done"
                    /\ cancels'[u] = [pc |-> "done", id |-> mockShipments[i].id,
                                      status |-> 200]]_vars

PostTrip == \E user \in Transporters, body \in CreateTripBodies : CreateTrip(user, body)

PutTrip ==
    \E user \in Transporters, id \in 1..MaxTrips, body \in UpdateTripBodies :
        UpdateTrip(user, id, body)

RemoveTrip == \E user \in Transporters, id \in 1..MaxTrips : DeleteTrip(user, id)

Match == \E body \in MatchBodies : MatchTrips(body)

NextTrips == PostTrip \/ PutTrip \/ RemoveTrip \/ Match

SpecTrips == InitVehicles /\ [][NextTrips]_vars

-----------------------------------------------------------------------------
(* Return trips: matching *)

\* C27: every trip of a match answer has status 'available' and an available capacity
\* >= the weight of the request (0 when the request has none), on either backend.
C27_MatchRespectsCapacity ==
    matchRes.status = 200 /\ "trips" \in DOMAIN matchRes =>
        \A i \in 1..Len(matchRes.trips) :
            /\ matchRes.trips[i].status = "available"
            /\ matchRes.trips[i].available_capacity_tons >= OrElse(matchRes.weight, 0)

LoginSettles == \E fulfilled \in BOOLEAN : loginSettled(fulfilled)

RegisterSettles == \E fulfilled \in BOOLEAN : registerSettled(fulfilled)

UpdateProfileSettles == \E fulfilled \in BOOLEAN : updateProfileSettled(fulfilled)

CheckAuthSettles == \E fulfilled \in BOOLEAN : checkAuthSettled(fulfilled)

NextAuth ==
    \/ login
    \/ LoginSettles
    \/ register
    \/ RegisterSettles
    \/ logout
    \/ updateProfile
    \/ UpdateProfileSettles
    \/ checkAuth
    \/ CheckAuthSettles
    \/ clearError
    \/ rehydrate

SpecAuth == InitVehicles /\ [][NextAuth]_vars

-----------------------------------------------------------------------------
(* Client auth store *)

\* C29: whenever isAuthenticated is true, token and user are not null.
C29_AuthenticatedHasToken ==
    authStore.isAuthenticated => authStore.token # NULL /\ authStore.user # NULL

-----------------------------------------------------------------------------
(* Pricing: the reported amounts *)

\* C28: in every shipping-price answer whose amounts are numbers the reported subtotal is
\* the sum of the five reported components, and in every fuel-cost answer costs.total is
\* the sum of the reported fuel, toll_estimate, driver_allowance and maintenance.
C28_BreakdownAddsUp ==
    /\ (ShippingAnswered /\ priceRes.nan = {}) =>
          priceRes.breakdown.subtotal =
              priceRes.breakdown.base_cost + priceRes.breakdown.vehicle_cost
              + priceRes.breakdown.cargo_adjustment + priceRes.breakdown.urgency_adjustment
              + priceRes.breakdown.return_cost
    /\ FuelAnswered =>
          priceRes.costs.total =
              priceRes.costs.fuel + priceRes.costs.toll_estimate
              + priceRes.costs.driver_allowance + priceRes.costs.maintenance

\* C30: every shipping-price request not answered 400 is answered with amounts that are
\* all numbers, and a request whose vehicle_type is not a priced class is answered 400.
C30_AnsweredAmountsAreNumbers ==
    (priceReq.kind = "shipping-price" /\ priceRes.status # 0) =>
        /\ priceRes.status # 400 => priceRes.nan = {}
        /\ priceReq.vehicle_type \notin PricedVehicleTypes => priceRes.status = 400

====
